---- MODULE Spec2Model ----
(***************************************************************************)
(* HAWKLING: listing IAM roles with their last-used date (AWSClient.       *)
(* ListRoles, a worker pool over two buffered channels) and the unified    *)
(* role filter (FilterRoles, Role.IsUnused).                               *)
(*                                                                         *)
(* Go slices are modelled as 1-based sequences; the indices that travel    *)
(* through the jobs and results channels keep their Go values (0-based),   *)
(* so roles[i] of the source is roles[i + 1] here.                         *)
(***************************************************************************)
EXTENDS Integers, Sequences, FiniteSets, Bags, TLC

\* ---------------------------------------------------------------- bounds
\* Largest number of roles the listing returns.
MaxRoles == 3
\* Number of worker goroutines; stands for maxConcurrency (55 in the source).
PoolSize == 2

\* Largest value of FilterOptions.Days examined.
MaxDays == 2

\* Most clock ticks that pass between a caller's preparation of a role and
\* the reading of the clock inside IsUnused.
MaxElapsed == 2

\* Most managed policies, and most inline policies, a role holds.
MaxPolicies == 2

\* Most policies one page of a policy listing carries.
PageSize == 1

\* Most invocations of DeleteRole by a caller that retries.
MaxInvocations == 2

\* ------------------------------------------------------------- constants
\* Clock ticks in one day: time.Time is finer than the day unit of AddDate.
DayTicks == 2

\* A nil *time.Time (Role.LastUsed of a role that was never used).
Nil == -1

Names == 1..MaxRoles

\* The IAM backend: the RoleLastUsed.LastUsedDate that GetRole holds for a
\* role name.  Role 1 was never used; every other role has a date of its own.
LastUsedDate(name) == IF name = 1 THEN Nil ELSE 10 * name

\* The zero value of roleResult, which a receive on the closed results
\* channel yields.
ZeroResult == [index |-> 0, lastUsed |-> Nil, err |-> FALSE]

\* The listings examined: for every length up to MaxRoles, the roles in
\* descending name order: names are unique within the listing, and the order
\* of the names is not the order of the positions.
ListingOf(n) == [i \in 1..n |-> n + 1 - i]

AllListings == {ListingOf(n) : n \in 0..MaxRoles}

VARIABLES
    listing,      \* the role names the ListRoles paginator yields, in order
    roles,        \* the roles slice of ListRoles
    mpc,          \* position of the ListRoles goroutine itself
    retErr,       \* TRUE when ListRoles returned an error
    dispatchI,    \* loop variable of "for i := range roles { jobs <- i }"
    jobs,         \* the jobs channel's buffer
    jobsClosed,
    results,      \* the results channel's buffer
    resultsClosed,
    pool,         \* the worker goroutines: a bag of their local states
                  \* (position, loop variable i, lastUsed and err)
    cI,           \* loop variable of the collector goroutine
    done,         \* the done channel is closed
    ctxDone,      \* "no", "parent" (the caller's context was cancelled) or
                  \* "deferred" (defer cancel() ran at return)
    panicked,     \* a goroutine sent on a closed channel
    fetchCalls,   \* history: number of GetRoleLastUsed calls per role name
    fetchRes,     \* history: the outcome of the call for each role name
    merged,       \* history: the results the collector received from workers,
                  \* in the order it merged them
    progress,     \* the progress bar: number of bar.Add(1) calls made
    fIn,          \* FilterRoles: the roles argument
    fOpts,        \* FilterRoles: the options argument
    now,          \* the wall clock, in ticks (time.Now())
    fOut,         \* FilterRoles: the returned slice
    fpc,          \* position of the FilterRoles caller
    uRole,        \* IsUnused: the receiver role
    uDays,        \* IsUnused: the days argument
    uRes,         \* IsUnused: the returned value
    upc,          \* position of the IsUnused caller
    attached,     \* IAM: the managed policies attached to each role
    inline,       \* IAM: the inline policies of each role
    present,      \* IAM: the names of the roles that exist
    dRole,        \* DeleteRole: the roleName argument
    dpc,          \* position inside DeleteRole
    pager,        \* the paginator of the sub-step in progress
    page,         \* the rest of the page the sub-step's inner loop is in
    dErr,         \* TRUE when DeleteRole returned an error
    dMsg,         \* what the error DeleteRole returned says, or NoError
    attempts,     \* history: the role names DeleteRole was invoked with
    dStart,       \* history: the role's grants when DeleteRole was invoked
    calls,        \* history: the IAM calls DeleteRole issued, in order
    cpc,          \* position inside PruneCommand.Execute
    cOpts,        \* PruneOptions: DryRun and Force
    cK,           \* prune: number of candidates the deletion loop is past
    failedRoles,  \* prune: the failedRoles slice
    cRet,         \* prune: "none", or what Execute returned: "nil" or "err"
    prompts,      \* history: the confirmation prompts shown (for each, the
                  \* candidate count or the role name it mentions)
    answer,       \* history: "none", or how the prompt ended: "yes", "no"
                  \* or "error"
    response,     \* history: the line the user typed at the prompt
    cmd,          \* the command that runs: "prune", "delete" or "list"
    roleName,     \* delete command: the role-name argument
    listed        \* history: "none", or how client.ListRoles ended: "ok" or
                  \* "failed"

pvars == <<listing, roles, mpc, retErr, dispatchI, jobs, jobsClosed, results,
           resultsClosed, pool, cI, done, ctxDone, panicked,
           fetchCalls, fetchRes, merged, progress>>

fvars == <<fIn, fOpts, now, fOut, fpc>>

uvars == <<uRole, uDays, uRes, upc>>

dvars == <<attached, inline, present, dRole, dpc, pager, page, dErr, dMsg,
           attempts, dStart, calls>>

cvars == <<cpc, cOpts, cK, failedRoles, cRet, prompts, answer, response,
           cmd, roleName, listed>>

\* What a command is constructed with.
cIn == <<cmd, cOpts, roleName>>

vars == <<pvars, fvars, uvars, dvars, cvars>>

N == Len(roles)

cancelled == ctxDone # "no"

\* A fetch outcome that has not been produced yet.
NoOutcome == [lastUsed |-> Nil, err |-> FALSE, set |-> FALSE]

\* The state of the ListRoles variables before (or without) a call.
ListRolesStart(l, pc) ==
    /\ listing = l
    /\ roles = << >>
    /\ mpc = pc
    /\ retErr = FALSE
    /\ dispatchI = 0
    /\ jobs = << >>
    /\ jobsClosed = FALSE
    /\ results = << >>
    /\ resultsClosed = FALSE
    /\ pool = EmptyBag
    /\ cI = 0
    /\ done = FALSE
    /\ ctxDone = "no"
    /\ panicked = FALSE
    /\ fetchCalls = [n \in Names |-> 0]
    /\ fetchRes = [n \in Names |-> NoOutcome]
    /\ merged = << >>
    /\ progress = 0

\* The FilterRoles variables when no filter call is being examined.
FilterIdle ==
    /\ fIn = << >>
    /\ fOpts = [Days |-> 0, OnlyUsed |-> FALSE, OnlyUnused |-> FALSE]
    /\ now = 0
    /\ fOut = << >>
    /\ fpc = "off"

\* The IsUnused variables when no IsUnused call is being examined.
UnusedIdle ==
    /\ uRole = [Name |-> 1, LastUsed |-> Nil]
    /\ uDays = 0
    /\ uRes = FALSE
    /\ upc = "off"

\* A paginator before its first page: iam.New...Paginator.
NewPaginator == [first |-> TRUE, token |-> Nil]

\* The error value of a DeleteRole call that succeeded.
NoError == [what |-> "", role |-> 0, policy |-> 0]

\* Variant: the error text leaves the policy out.
ErrorfNoPolicy(what, role, policy) == [what |-> what, role |-> role, policy |-> 0]

\* fmt.Errorf("failed to <what> [<policy> from] role <role>: %w", ...): the
\* operation, the role and, for a policy removal, the policy the text names.
Errorf(what, role, policy) == [what |-> what, role |-> role, policy |-> policy]

\* The DeleteRole variables when no deletion is being examined.
DeleteIdle ==
    /\ attached = [n \in Names |-> {}]
    /\ inline = [n \in Names |-> {}]
    /\ present = {}
    /\ dRole = 0
    /\ dpc = "off"
    /\ pager = NewPaginator
    /\ page = << >>
    /\ dErr = FALSE
    /\ dMsg = NoError
    /\ attempts = << >>
    /\ dStart = [attached |-> {}, inline |-> {}]
    /\ calls = << >>

\* The line read before any prompt: nothing, the input at its end.
NoLine == [word |-> "", eof |-> TRUE]

\* The command variables when no command is being examined.
PruneIdle ==
    /\ cpc = "off"
    /\ cOpts = [DryRun |-> FALSE, Force |-> FALSE]
    /\ cK = 0
    /\ failedRoles = << >>
    /\ cRet = "none"
    /\ prompts = << >>
    /\ answer = "none"
    /\ response = NoLine
    /\ cmd = "none"
    /\ roleName = 0
    /\ listed = "none"

Init ==
    /\ \E l \in AllListings : ListRolesStart(l, "list")
    /\ FilterIdle
    /\ UnusedIdle
    /\ DeleteIdle
    /\ PruneIdle

\* The instant at which the filter calls are examined: late enough for a
\* role to have been last used more than MaxDays days ago.
FilterEpoch == (MaxDays + 1) * DayTicks

\* Values of Role.LastUsed: nil, or an instant not after the current time.
LastUsedValues(t) == {Nil} \cup 0..t

\* Role slices given to FilterRoles: up to MaxRoles roles with unique names,
\* every combination of LastUsed values.
RoleSlices(t) ==
    UNION {{[i \in 1..n |-> [Name |-> ListingOf(n)[i], LastUsed |-> lu[i]]] :
                lu \in [1..n -> LastUsedValues(t)]} : n \in 0..MaxRoles}

AllFilterOptions ==
    [Days : 0..MaxDays, OnlyUsed : BOOLEAN, OnlyUnused : BOOLEAN]

FilterInit ==
    /\ ListRolesStart(<< >>, "off")
    /\ now = FilterEpoch
    /\ fIn \in RoleSlices(FilterEpoch)
    /\ fOpts \in AllFilterOptions
    /\ fOut = << >>
    /\ fpc = "ready"
    /\ UnusedIdle
    /\ DeleteIdle
    /\ PruneIdle

\* Roles IsUnused is applied to: never used, used at any instant up to the
\* current one, or stamped up to a day ahead of the examined clock.
UnusedRoles ==
    [Name : {1}, LastUsed : {Nil} \cup 0..(FilterEpoch + DayTicks)]

UnusedInit ==
    /\ ListRolesStart(<< >>, "off")
    /\ fIn = << >>
    /\ fOpts = [Days |-> 0, OnlyUsed |-> FALSE, OnlyUnused |-> FALSE]
    /\ now = FilterEpoch
    /\ fOut = << >>
    /\ fpc = "off"
    /\ uRole \in UnusedRoles
    /\ uDays \in 0..MaxDays
    /\ uRes = FALSE
    /\ upc = "ready"
    /\ DeleteIdle
    /\ PruneIdle

\* ------------------------------------------------------------ ListRoles
\* Variant: the jobs buffer is one slot shorter than the listing.
JobsCapShort(n) == n - 1

\* make(chan int, len(roles)) and make(chan roleResult, len(roles)).
JobsCap(n) == n

ResultsCap(n) == n

\* The []Role that the paginator loop builds: one Role per listed name, in
\* listing order, LastUsed not yet known.
BaseRoles(l) == [i \in 1..Len(l) |-> [Name |-> l[i], LastUsed |-> Nil]]

\* What GetRoleLastUsed returns for a role name: (nil, err) when GetRole
\* fails, otherwise the backend's LastUsedDate (nil for a role never used).
GetRoleLastUsed(name, fails) ==
    [lastUsed |-> IF fails THEN Nil ELSE LastUsedDate(name), err |-> fails]

\* Variant: the worker leaves the index field unset.
RoleResultNoIndex(i, out) ==
    [index |-> 0, lastUsed |-> out.lastUsed, err |-> out.err]

\* The roleResult a worker builds for job i.
RoleResult(i, out) == [index |-> i, lastUsed |-> out.lastUsed, err |-> out.err]

\* "result := <-results": the head of the buffer, or the zero value once the
\* channel is closed and drained.
Receive(buf) == IF buf # << >> THEN Head(buf) ELSE ZeroResult

\* Variant: a failed lookup discards the enrichment gathered so far.
MergeAbortOnError(rs, r) ==
    IF r.err
    THEN [i \in DOMAIN rs |-> [rs[i] EXCEPT !.LastUsed = Nil]]
    ELSE [rs EXCEPT ![r.index + 1].LastUsed = r.lastUsed]

\* The collector's write of one result into its positional slot.
Merge(rs, r) ==
    [rs EXCEPT ![r.index + 1].LastUsed = IF r.err THEN Nil ELSE r.lastUsed]

\* The worker's first select: "case <-ctx.Done(): return".
StopBeforeFetch == cancelled

\* The worker's second select: the ctx.Done() case is ready.
MayDropResult == cancelled

\* The worker goroutines are anonymous and run the same closure, so the pool
\* is the bag of their local states.  Locals that are dead (i, lastUsed and
\* err outside the loop body) are kept at their zero values.
\*
\* A worker goroutine that holds no job: at the head of its loop ("range")
\* or returned ("exited").
WorkerAt(pc) == [pc |-> pc, i |-> 0, lastUsed |-> Nil, err |-> FALSE]

\* The pool after one worker went from local state ws to local state ws2.
Step(ws, ws2) == (pool (-) SetToBag({ws})) (+) SetToBag({ws2})

\* Variant: wg.Wait() returns without waiting for any worker.
WaitSkipped == TRUE

\* wg.Wait() returns: every worker ran its deferred wg.Done().
AllWorkersExited == \A ws \in BagToSet(pool) : ws.pc = "exited"

\* Variant: one worker goroutine is started per role.
WorkerCountPerRole(n) == n

\* "for w := 0; w < maxConcurrency; w++": the number of worker goroutines
\* started for n roles.
WorkerCount(n) == PoolSize

\* The paginator yields every page: the roles slice is built, the channels
\* and the cancellable context are created and the workers are started.
ListOK ==
    /\ mpc = "list"
    /\ roles' = BaseRoles(listing)
    /\ pool' = [ws \in {WorkerAt("range")} |-> WorkerCount(Len(listing))]
    /\ mpc' = "dispatch"
    /\ UNCHANGED <<listing, progress, retErr, dispatchI, jobs, jobsClosed, results,
                   resultsClosed, cI, done, ctxDone, panicked,
                   fetchCalls, fetchRes, merged>>
    /\ UNCHANGED <<fvars, uvars, dvars, cvars>>

\* paginator.NextPage fails: return nil, "failed to list roles".
ListFail ==
    /\ mpc = "list"
    /\ mpc' = "returned"
    /\ retErr' = TRUE
    /\ UNCHANGED <<listing, progress, roles, dispatchI, jobs, jobsClosed, results,
                   resultsClosed, pool, cI, done, ctxDone,
                   panicked, fetchCalls, fetchRes, merged>>
    /\ UNCHANGED <<fvars, uvars, dvars, cvars>>

\* One iteration of "for i := range roles { jobs <- i }".
Dispatch ==
    /\ mpc = "dispatch"
    /\ dispatchI < N
    /\ Len(jobs) < JobsCap(N)
    /\ jobs' = Append(jobs, dispatchI)
    /\ dispatchI' = dispatchI + 1
    /\ UNCHANGED <<listing, progress, roles, mpc, retErr, jobsClosed, results,
                   resultsClosed, pool, cI, done, ctxDone,
                   panicked, fetchCalls, fetchRes, merged>>
    /\ UNCHANGED <<fvars, uvars, dvars, cvars>>

\* close(jobs), then the collector and the closer goroutines are started and
\* ListRoles waits on done.
CloseJobs ==
    /\ mpc = "dispatch"
    /\ dispatchI = N
    /\ jobsClosed' = TRUE
    /\ mpc' = "wait"
    /\ UNCHANGED <<listing, progress, roles, retErr, dispatchI, jobs, results,
                   resultsClosed, pool, cI, done, ctxDone,
                   panicked, fetchCalls, fetchRes, merged>>
    /\ UNCHANGED <<fvars, uvars, dvars, cvars>>

\* "for i := range jobs" takes the next index, then the first select either
\* returns (context done) or lets the worker go on to the lookup.
WorkerTake(ws) ==
    /\ ws.pc = "range"
    /\ jobs # << >>
    /\ jobs' = Tail(jobs)
    /\ pool' = IF StopBeforeFetch
               THEN Step(ws, WorkerAt("exited"))
               ELSE Step(ws, [ws EXCEPT !.pc = "call", !.i = Head(jobs)])
    /\ UNCHANGED <<listing, progress, roles, mpc, retErr, dispatchI, jobsClosed,
                   results, resultsClosed, cI, done, ctxDone, panicked,
                   fetchCalls, fetchRes, merged>>
    /\ UNCHANGED <<fvars, uvars, dvars, cvars>>

\* "for i := range jobs" ends: the channel is closed and empty.
WorkerFinish(ws) ==
    /\ ws.pc = "range"
    /\ jobs = << >>
    /\ jobsClosed
    /\ pool' = Step(ws, WorkerAt("exited"))
    /\ UNCHANGED <<listing, progress, roles, mpc, retErr, dispatchI, jobs, jobsClosed,
                   results, resultsClosed, cI, done, ctxDone, panicked,
                   fetchCalls, fetchRes, merged>>
    /\ UNCHANGED <<fvars, uvars, dvars, cvars>>

\* The worker invokes c.GetRoleLastUsed(ctx, roles[i].Name).
WorkerCall(ws) ==
    /\ ws.pc = "call"
    /\ LET name == roles[ws.i + 1].Name
       IN  fetchCalls' = [fetchCalls EXCEPT ![name] = @ + 1]
    /\ pool' = Step(ws, [ws EXCEPT !.pc = "fetch"])
    /\ UNCHANGED <<listing, progress, roles, mpc, retErr, dispatchI, jobs, jobsClosed,
                   results, resultsClosed, cI, done, ctxDone, panicked,
                   fetchRes, merged>>
    /\ UNCHANGED <<fvars, uvars, dvars, cvars>>

\* GetRoleLastUsed returns, with the backend's value or with an error.
FetchReturn(ws) ==
    /\ ws.pc = "fetch"
    /\ \E fails \in BOOLEAN :
         LET name == roles[ws.i + 1].Name
             out  == GetRoleLastUsed(name, fails)
         IN  /\ pool' = Step(ws, [ws EXCEPT !.pc = "send",
                                            !.lastUsed = out.lastUsed,
                                            !.err = out.err])
             /\ fetchRes' = [fetchRes EXCEPT ![name] =
                    [lastUsed |-> out.lastUsed, err |-> out.err, set |-> TRUE]]
    /\ UNCHANGED <<listing, progress, roles, mpc, retErr, dispatchI, jobs, jobsClosed,
                   results, resultsClosed, cI, done, ctxDone, panicked,
                   fetchCalls, merged>>
    /\ UNCHANGED <<fvars, uvars, dvars, cvars>>

\* The second select takes "results <- roleResult{...}".
WorkerSend(ws) ==
    /\ ws.pc = "send"
    /\ Len(results) < ResultsCap(N) \/ resultsClosed
    /\ IF resultsClosed
       THEN /\ panicked' = TRUE
            /\ UNCHANGED results
       ELSE /\ results' = Append(results, RoleResult(ws.i, ws))
            /\ UNCHANGED panicked
    /\ pool' = Step(ws, WorkerAt("range"))
    /\ UNCHANGED <<listing, progress, roles, mpc, retErr, dispatchI, jobs, jobsClosed,
                   resultsClosed, cI, done, ctxDone, fetchCalls, fetchRes,
                   merged>>
    /\ UNCHANGED <<fvars, uvars, dvars, cvars>>

\* The second select takes "case <-ctx.Done(): return".
WorkerAbort(ws) ==
    /\ ws.pc = "send"
    /\ MayDropResult
    /\ pool' = Step(ws, WorkerAt("exited"))
    /\ UNCHANGED <<listing, progress, roles, mpc, retErr, dispatchI, jobs, jobsClosed,
                   results, resultsClosed, cI, done, ctxDone, panicked,
                   fetchCalls, fetchRes, merged>>
    /\ UNCHANGED <<fvars, uvars, dvars, cvars>>

\* bar.Add(1); an error it returns is printed and the loop goes on.
BarAdd(p) == p + 1

\* One iteration of the collector's loop: receive, write the slot, bar.Add.
\* The collector is a goroutine of its own: it runs once it was started,
\* wherever ListRoles itself is.
Collect ==
    /\ mpc \in {"wait", "returned"}
    /\ ~retErr
    /\ ~done
    /\ cI < N
    /\ results # << >> \/ resultsClosed
    /\ LET r == Receive(results)
       IN  /\ roles' = Merge(roles, r)
           /\ merged' = IF results # << >> THEN Append(merged, r) ELSE merged
    /\ results' = IF results # << >> THEN Tail(results) ELSE results
    /\ cI' = cI + 1
    /\ progress' = BarAdd(progress)
    /\ UNCHANGED <<listing, mpc, retErr, dispatchI, jobs, jobsClosed,
                   resultsClosed, pool, done, ctxDone, panicked,
                   fetchCalls, fetchRes>>
    /\ UNCHANGED <<fvars, uvars, dvars, cvars>>

\* Variant: the collector closes done without waiting for the last result.
CollectorDoneEarly ==
    /\ mpc \in {"wait", "returned"}
    /\ ~retErr
    /\ ~done
    /\ cI >= N - 1
    /\ done' = TRUE
    /\ UNCHANGED <<listing, progress, roles, mpc, retErr, dispatchI, jobs,
                   jobsClosed, results, resultsClosed, pool, cI, ctxDone,
                   panicked, fetchCalls, fetchRes, merged>>
    /\ UNCHANGED <<fvars, uvars, dvars, cvars>>

\* The collector's loop is over: the deferred close(done) runs.
CollectorDone ==
    /\ mpc \in {"wait", "returned"}
    /\ ~retErr
    /\ ~done
    /\ cI = N
    /\ done' = TRUE
    /\ UNCHANGED <<listing, progress, roles, mpc, retErr, dispatchI, jobs, jobsClosed,
                   results, resultsClosed, pool, cI, ctxDone,
                   panicked, fetchCalls, fetchRes, merged>>
    /\ UNCHANGED <<fvars, uvars, dvars, cvars>>

\* The closer goroutine: wg.Wait() returned, close(results).
CloseResults ==
    /\ mpc \in {"wait", "returned"}
    /\ ~retErr
    /\ ~resultsClosed
    /\ AllWorkersExited
    /\ resultsClosed' = TRUE
    /\ UNCHANGED <<listing, progress, roles, mpc, retErr, dispatchI, jobs, jobsClosed,
                   results, pool, cI, done, ctxDone, panicked,
                   fetchCalls, fetchRes, merged>>
    /\ UNCHANGED <<fvars, uvars, dvars, cvars>>

\* Variant: ListRoles returns without waiting on done.
ReturnWithoutWaiting ==
    /\ mpc = "wait"
    /\ mpc' = "returned"
    /\ ctxDone' = IF ctxDone = "no" THEN "deferred" ELSE ctxDone
    /\ UNCHANGED <<listing, progress, roles, retErr, dispatchI, jobs, jobsClosed,
                   results, resultsClosed, pool, cI, done,
                   panicked, fetchCalls, fetchRes, merged>>
    /\ UNCHANGED <<fvars, uvars, dvars, cvars>>

\* "<-done; return roles, nil", and the deferred cancel().
Return ==
    /\ mpc = "wait"
    /\ done
    /\ mpc' = "returned"
    /\ ctxDone' = IF ctxDone = "no" THEN "deferred" ELSE ctxDone
    /\ UNCHANGED <<listing, progress, roles, retErr, dispatchI, jobs, jobsClosed,
                   results, resultsClosed, pool, cI, done,
                   panicked, fetchCalls, fetchRes, merged>>
    /\ UNCHANGED <<fvars, uvars, dvars, cvars>>

\* The caller's context is cancelled (timeout, interrupt) during the call.
Cancel ==
    /\ mpc \in {"dispatch", "wait"}
    /\ ctxDone = "no"
    /\ ctxDone' = "parent"
    /\ UNCHANGED <<listing, progress, roles, mpc, retErr, dispatchI, jobs, jobsClosed,
                   results, resultsClosed, pool, cI, done,
                   panicked, fetchCalls, fetchRes, merged>>
    /\ UNCHANGED <<fvars, uvars, dvars, cvars>>

Next ==
    \/ ListOK
    \/ ListFail
    \/ Dispatch
    \/ CloseJobs
    \/ \E ws \in BagToSet(pool) : WorkerTake(ws)
    \/ \E ws \in BagToSet(pool) : WorkerFinish(ws)
    \/ \E ws \in BagToSet(pool) : WorkerCall(ws)
    \/ \E ws \in BagToSet(pool) : FetchReturn(ws)
    \/ \E ws \in BagToSet(pool) : WorkerSend(ws)
    \/ \E ws \in BagToSet(pool) : WorkerAbort(ws)
    \/ Collect
    \/ CollectorDone
    \/ CloseResults
    \/ Return
    \/ Cancel

Spec == Init /\ [][Next]_vars

\* Every step the program itself takes (all of Next but the caller's Cancel).
Program ==
    \/ ListOK
    \/ ListFail
    \/ Dispatch
    \/ CloseJobs
    \/ \E ws \in BagToSet(pool) : WorkerTake(ws)
    \/ \E ws \in BagToSet(pool) : WorkerFinish(ws)
    \/ \E ws \in BagToSet(pool) : WorkerCall(ws)
    \/ \E ws \in BagToSet(pool) : FetchReturn(ws)
    \/ \E ws \in BagToSet(pool) : WorkerSend(ws)
    \/ \E ws \in BagToSet(pool) : WorkerAbort(ws)
    \/ Collect
    \/ CollectorDone
    \/ CloseResults
    \/ Return

\* The Go scheduler runs every runnable goroutine and every started
\* GetRoleLastUsed call returns; nothing obliges the caller to cancel.  Every
\* step of Program moves one goroutine forward in a loop that is bounded by
\* len(roles), so weak fairness of Program as a whole already lets no
\* goroutine that can run wait forever.
FairSpec == Spec /\ WF_vars(Program)

\* ------------------------------------------------- properties: ListRoles
ListedNames == {listing[i] : i \in DOMAIN listing}

FailedNames == {n \in ListedNames : fetchRes[n].set /\ fetchRes[n].err}

\* fetchLastUsed was called for every listed role, failed for exactly one
\* and succeeded for the rest.
ExactlyOneFetchFailed ==
    /\ \A n \in ListedNames : fetchRes[n].set
    /\ Cardinality(FailedNames) = 1

\* The outcome of ListRoles that the partial-failure claim describes.
PartialFailureOutcome ==
    /\ ~retErr
    /\ Len(roles) = Len(listing)
    /\ \A i \in DOMAIN listing :
         /\ roles[i].Name = listing[i]
         /\ roles[i].LastUsed =
              IF listing[i] \in FailedNames THEN Nil
              ELSE LastUsedDate(listing[i])

\* C1 as stated: whenever ListRoles has returned after a fetchLastUsed that
\* failed for exactly one role and succeeded for all others, the result has
\* length N, the failing role has no lastUsed, every other role carries its
\* fetched value and no error is returned.
C1_PartialFailureAlways ==
    (mpc = "returned" /\ ExactlyOneFetchFailed) => PartialFailureOutcome

\* C1 amended: the same, provided the caller's context was not cancelled
\* before ListRoles returned.
C1_PartialFailure ==
    (mpc = "returned" /\ ctxDone # "parent" /\ ExactlyOneFetchFailed)
        => PartialFailureOutcome

C1_Witness ==
    /\ mpc = "returned"
    /\ ctxDone = "deferred"
    /\ ExactlyOneFetchFailed
    /\ Len(roles) >= 2
    /\ \E i \in DOMAIN roles :
         /\ roles[i].Name \in FailedNames
         /\ LastUsedDate(roles[i].Name) # Nil
    /\ \E i \in DOMAIN roles : roles[i].LastUsed # Nil

\* C2: when ListRoles returns without cancellation, in every interleaving,
\* the role at position i is the listing's role at position i, fetchLastUsed
\* was invoked exactly once for it, and its lastUsed is that invocation's
\* result for its own name.
C2_PositionalMerge ==
    (mpc = "returned" /\ ~retErr /\ ctxDone # "parent") =>
        /\ Len(roles) = Len(listing)
        /\ \A i \in DOMAIN listing :
             /\ roles[i].Name = listing[i]
             /\ fetchCalls[listing[i]] = 1
             /\ fetchRes[listing[i]].set
             /\ roles[i].LastUsed =
                  IF fetchRes[listing[i]].err THEN Nil
                  ELSE fetchRes[listing[i]].lastUsed
             /\ ~fetchRes[listing[i]].err
                  => fetchRes[listing[i]].lastUsed = LastUsedDate(listing[i])

\* The lookups completed in an order other than the listing's.
C2_Witness ==
    /\ mpc = "returned"
    /\ ctxDone = "deferred"
    /\ Len(merged) >= 2
    /\ merged[1].index > merged[2].index
    /\ ~merged[1].err
    /\ ~merged[2].err
    /\ roles[merged[2].index + 1].LastUsed # Nil

\* C3: every execution of ListRoles eventually returns, cancelled or not,
\* and leaves no worker or closer goroutine blocked on a channel.
C3_Terminates ==
    <>(/\ mpc = "returned"
       /\ retErr \/ (AllWorkersExited /\ resultsClosed))

\* A cancelled run has returned although not every lookup was made.
C3_Witness ==
    /\ mpc = "returned"
    /\ ctxDone = "parent"
    /\ AllWorkersExited
    /\ resultsClosed
    /\ \E n \in ListedNames : fetchCalls[n] = 0

\* C4: after a cancellation, every role whose lookup result the collector
\* had merged still holds that value when ListRoles returns.
C4_KeepsCompleted ==
    (mpc = "returned" /\ ctxDone = "parent") =>
        \A k \in DOMAIN merged :
            roles[merged[k].index + 1].LastUsed =
                IF merged[k].err THEN Nil ELSE merged[k].lastUsed

\* ----------------------------------------------------------- FilterRoles
\* Variant: the days are added with the opposite sign.
AddDaysOpposite(t, days) == t - days * DayTicks

\* t.AddDate(0, 0, days).
AddDays(t, days) == t + days * DayTicks

\* Variant: time.Time.Before taken as "not after".
NotAfter(a, b) == a <= b

\* Variant: the instants are compared at the resolution of a day.
BeforeByADay(a, b) == a + DayTicks <= b

\* time.Time.Before.
Before(a, b) == a < b

\* Variant: the threshold is the current instant, whatever days is.
IsUnusedIgnoringDays(role, days, t) ==
    IF role.LastUsed = Nil THEN TRUE ELSE Before(role.LastUsed, t)

\* Variant: a never-used role counts as unused for a positive days only.
IsUnusedNilByDays(role, days, t) ==
    IF role.LastUsed = Nil
    THEN days > 0
    ELSE Before(role.LastUsed, AddDays(t, -days))

\* Variant: a role last used exactly at the threshold counts as unused.
IsUnusedInclusive(role, days, t) ==
    IF role.LastUsed = Nil
    THEN TRUE
    ELSE ~Before(AddDays(t, -days), role.LastUsed)

\* Role.IsUnused(days), with t the value time.Now() returns inside the call.
IsUnused(role, days, t) ==
    IF role.LastUsed = Nil
    THEN TRUE
    ELSE LET threshold == AddDays(t, -days)
         IN  Before(role.LastUsed, threshold)

\* Variant: the unused-only check is age-aware (a used role passes when it
\* is unused for the given days).
SkippedAgeAware(role, opt, t) ==
    \/ opt.OnlyUnused /\ role.LastUsed # Nil /\ ~IsUnused(role, opt.Days, t)
    \/ opt.OnlyUsed /\ role.LastUsed = Nil
    \/ opt.Days > 0 /\ ~opt.OnlyUnused /\ ~IsUnused(role, opt.Days, t)

\* Variant: the unused-only condition is inverted.
SkippedInverted(role, opt, t) ==
    \/ opt.OnlyUnused /\ role.LastUsed = Nil
    \/ opt.OnlyUsed /\ role.LastUsed = Nil
    \/ opt.Days > 0 /\ ~opt.OnlyUnused /\ ~IsUnused(role, opt.Days, t)

\* Variant: the days filter is applied for Days = 0 too.
SkippedDaysAlways(role, opt, t) ==
    \/ opt.OnlyUnused /\ role.LastUsed # Nil
    \/ opt.OnlyUsed /\ role.LastUsed = Nil
    \/ opt.Days >= 0 /\ ~opt.OnlyUnused /\ ~IsUnused(role, opt.Days, t)

\* Variant: the used-only check is absent.
SkippedUsedOff(role, opt, t) ==
    \/ opt.OnlyUnused /\ role.LastUsed # Nil
    \/ opt.Days > 0 /\ ~opt.OnlyUnused /\ ~IsUnused(role, opt.Days, t)

\* Variant: the days check is absent.
SkippedNoDays(role, opt, t) ==
    \/ opt.OnlyUnused /\ role.LastUsed # Nil
    \/ opt.OnlyUsed /\ role.LastUsed = Nil

\* Variant: the unused-only check is absent.
SkippedUnusedOff(role, opt, t) ==
    \/ opt.OnlyUsed /\ role.LastUsed = Nil
    \/ opt.Days > 0 /\ ~opt.OnlyUnused /\ ~IsUnused(role, opt.Days, t)

\* The three "continue" conditions of the loop body of FilterRoles.
Skipped(role, opt, t) ==
    \/ opt.OnlyUnused /\ role.LastUsed # Nil
    \/ opt.OnlyUsed /\ role.LastUsed = Nil
    \/ opt.Days > 0 /\ ~opt.OnlyUnused /\ ~IsUnused(role, opt.Days, t)

\* Variant: a surviving role is put in front of the result.
PrependRole(acc, role) == <<role>> \o acc

\* filteredRoles = append(filteredRoles, role).
AppendRole(acc, role) == Append(acc, role)

\* "for _, role := range roles": the loop from position k on, acc being
\* filteredRoles so far.
RECURSIVE FilterLoop(_, _, _, _, _)
FilterLoop(rs, opt, t, k, acc) ==
    IF k > Len(rs) THEN acc
    ELSE FilterLoop(rs, opt, t, k + 1,
                    IF Skipped(rs[k], opt, t) THEN acc
                    ELSE AppendRole(acc, rs[k]))

\* Variant: with both flags set, OnlyUsed takes precedence.
FilterRolesUsedWins(rs, opt, t) ==
    FilterLoop(rs, [opt EXCEPT !.OnlyUnused = opt.OnlyUnused /\ ~opt.OnlyUsed],
               t, 1, << >>)

\* FilterRoles(roles, options), with t the current time.
FilterRoles(rs, opt, t) ==
    IF opt.OnlyUsed /\ opt.OnlyUnused
    THEN << >>
    ELSE FilterLoop(rs, opt, t, 1, << >>)

\* A caller applies FilterRoles to its roles and options.
FilterCall ==
    /\ fpc = "ready"
    /\ fOut' = FilterRoles(fIn, fOpts, now)
    /\ fpc' = "done"
    /\ UNCHANGED <<fIn, fOpts, now>>
    /\ UNCHANGED <<pvars, uvars, dvars, cvars>>

FilterNext == FilterCall

SpecFilter == FilterInit /\ [][FilterNext]_vars

\* -------------------------------------------------------- Role.IsUnused
\* Time passes between the preparation of the role and the call.
Tick ==
    /\ upc = "ready"
    /\ now < FilterEpoch + MaxElapsed
    /\ now' = now + 1
    /\ UNCHANGED <<fIn, fOpts, fOut, fpc>>
    /\ UNCHANGED <<pvars, uvars, dvars, cvars>>

\* A caller evaluates role.IsUnused(days); the clock is read inside the call.
IsUnusedCall ==
    /\ upc = "ready"
    /\ uRes' = IsUnused(uRole, uDays, now)
    /\ upc' = "done"
    /\ UNCHANGED <<uRole, uDays>>
    /\ UNCHANGED <<pvars, fvars, dvars, cvars>>

UnusedNext ==
    \/ Tick
    \/ IsUnusedCall

SpecUnused == UnusedInit /\ [][UnusedNext]_vars

\* ----------------------------------------------- properties: FilterRoles
\* a is a subsequence of b: a's elements occur in b in the same order.
RECURSIVE IsSubsequence(_, _)
IsSubsequence(a, b) ==
    IF a = << >> THEN TRUE
    ELSE IF b = << >> THEN FALSE
    ELSE IF Head(a) = Head(b) THEN IsSubsequence(Tail(a), Tail(b))
    ELSE IsSubsequence(a, Tail(b))

Elems(q) == {q[i] : i \in DOMAIN q}

NeverUsed(role) == role.LastUsed = Nil

\* The role was last used strictly more than d days before the instant t.
StaleFor(role, d, t) == role.LastUsed # Nil /\ role.LastUsed + d * DayTicks < t

\* The role was last used within the d days before t (the boundary included).
RecentFor(role, d, t) == role.LastUsed # Nil /\ role.LastUsed + d * DayTicks >= t

UnusedOnly == fOpts.OnlyUnused /\ ~fOpts.OnlyUsed

NoFlags == ~fOpts.OnlyUnused /\ ~fOpts.OnlyUsed

\* C5: with onlyUsed and onlyUnused both set, FilterRoles returns the empty
\* sequence for every input and every days value.
C5_ConflictYieldsNothing ==
    (fpc = "done" /\ fOpts.OnlyUsed /\ fOpts.OnlyUnused) => fOut = << >>

C5_Witness ==
    /\ fpc = "done"
    /\ fOpts.OnlyUsed /\ fOpts.OnlyUnused
    /\ fOpts.Days > 0
    /\ \E i, j \in DOMAIN fIn : NeverUsed(fIn[i]) /\ ~NeverUsed(fIn[j])
    /\ fOut = << >>

\* C6: the result of FilterRoles is a subsequence of its input: every
\* returned role is an input role, unaltered, none twice, in input order.
C6_StableFilter ==
    fpc = "done" =>
        /\ IsSubsequence(fOut, fIn)
        /\ Cardinality(Elems(fOut)) = Len(fOut)

C6_Witness ==
    /\ fpc = "done"
    /\ Len(fIn) >= 3
    /\ fOut = <<fIn[1], fIn[3]>>

\* C7 as stated: with onlyUnused alone and days = d > 0, FilterRoles keeps
\* the never-used roles and the used roles last used strictly before the
\* d-day threshold ({Inactive, NeverUsed} in the three-role scenario).
C7_UnusedKeepsStale ==
    (fpc = "done" /\ UnusedOnly /\ fOpts.Days > 0) =>
        fOut = SelectSeq(fIn, LAMBDA r : NeverUsed(r) \/ StaleFor(r, fOpts.Days, now))

\* C7 amended: with onlyUnused alone and days = d > 0, FilterRoles drops
\* every role that has been used, also one last used strictly before the
\* d-day threshold, and keeps the never-used ones ({NeverUsed} in the
\* three-role scenario).
C7_UnusedDropsStale ==
    (fpc = "done" /\ UnusedOnly /\ fOpts.Days > 0) =>
        /\ \A i \in DOMAIN fIn :
             StaleFor(fIn[i], fOpts.Days, now) => fIn[i] \notin Elems(fOut)
        /\ \A i \in DOMAIN fIn :
             RecentFor(fIn[i], fOpts.Days, now) => fIn[i] \notin Elems(fOut)
        /\ \A i \in DOMAIN fIn : NeverUsed(fIn[i]) => fIn[i] \in Elems(fOut)

\* The three-role scenario: a recent, a stale and a never-used role.
C7_Witness ==
    /\ fpc = "done"
    /\ UnusedOnly
    /\ fOpts.Days > 0
    /\ Len(fIn) = 3
    /\ RecentFor(fIn[1], fOpts.Days, now)
    /\ StaleFor(fIn[2], fOpts.Days, now)
    /\ NeverUsed(fIn[3])
    /\ fOut = <<fIn[3]>>

\* C8: with onlyUnused alone, FilterRoles returns exactly the never-used
\* roles, and the same result for every days value, 0 included.
C8_UnusedIgnoresDays ==
    (fpc = "done" /\ UnusedOnly) =>
        /\ fOut = SelectSeq(fIn, NeverUsed)
        /\ \A d \in 0..MaxDays :
             FilterRoles(fIn, [fOpts EXCEPT !.Days = d], now) = fOut

C8_Witness ==
    /\ fpc = "done"
    /\ UnusedOnly
    /\ fOpts.Days = 0
    /\ \E i, j \in DOMAIN fIn :
         /\ NeverUsed(fIn[i])
         /\ StaleFor(fIn[j], MaxDays, now)
         /\ fIn[j] \notin Elems(fOut)
    /\ Len(fOut) >= 1

\* C9: with days = d > 0 and no flag, FilterRoles returns exactly the
\* never-used roles and the roles last used strictly before now - d days.
C9_DaysOnly ==
    (fpc = "done" /\ NoFlags /\ fOpts.Days > 0) =>
        /\ fOut = SelectSeq(fIn, LAMBDA r : NeverUsed(r) \/ StaleFor(r, fOpts.Days, now))
        /\ \A i \in DOMAIN fIn :
             RecentFor(fIn[i], fOpts.Days, now) => fIn[i] \notin Elems(fOut)

\* A role used exactly d days ago is removed, older and never-used ones stay.
C9_Witness ==
    /\ fpc = "done"
    /\ NoFlags
    /\ fOpts.Days > 0
    /\ Len(fIn) = 3
    /\ fIn[1].LastUsed = now - fOpts.Days * DayTicks
    /\ StaleFor(fIn[2], fOpts.Days, now)
    /\ NeverUsed(fIn[3])
    /\ fOut = <<fIn[2], fIn[3]>>

\* C10: with days = 0 and no flag, FilterRoles returns its input unchanged.
C10_NoFilter ==
    (fpc = "done" /\ NoFlags /\ fOpts.Days = 0) => fOut = fIn

C10_Witness ==
    /\ fpc = "done"
    /\ NoFlags
    /\ fOpts.Days = 0
    /\ Len(fIn) >= 2
    /\ \E i, j \in DOMAIN fIn : fIn[i].LastUsed = now /\ NeverUsed(fIn[j])
    /\ fOut = fIn

UsedOnly == fOpts.OnlyUsed /\ ~fOpts.OnlyUnused

\* The three-role scenario for d days: the first role used within the last
\* d days, the second last used more than d days ago, the third never used.
ThreeRoleScenario(d) ==
    /\ Len(fIn) = 3
    /\ RecentFor(fIn[1], d, now)
    /\ StaleFor(fIn[2], d, now)
    /\ NeverUsed(fIn[3])

\* C11: with onlyUsed alone and days = 0, FilterRoles returns exactly the
\* roles whose lastUsed is present, however long ago that was; in the
\* three-role scenario the recent and the stale role, not the never-used one.
C11_UsedOnly ==
    (fpc = "done" /\ UsedOnly /\ fOpts.Days = 0) =>
        /\ fOut = SelectSeq(fIn, LAMBDA r : ~NeverUsed(r))
        /\ \A d \in 1..MaxDays : ThreeRoleScenario(d) => fOut = <<fIn[1], fIn[2]>>

C11_Witness ==
    /\ fpc = "done"
    /\ UsedOnly
    /\ fOpts.Days = 0
    /\ ThreeRoleScenario(MaxDays)
    /\ fIn[1].LastUsed = now
    /\ fIn[2].LastUsed = 0
    /\ fOut = <<fIn[1], fIn[2]>>

\* C12: with onlyUsed alone and days = d > 0, FilterRoles returns exactly
\* the roles that have been used and whose lastUsed is strictly before
\* now - d days; in the three-role scenario the stale role alone.
C12_UsedAndStale ==
    (fpc = "done" /\ UsedOnly /\ fOpts.Days > 0) =>
        /\ fOut = SelectSeq(fIn, LAMBDA r : StaleFor(r, fOpts.Days, now))
        /\ ThreeRoleScenario(fOpts.Days) => fOut = <<fIn[2]>>

C12_Witness ==
    /\ fpc = "done"
    /\ UsedOnly
    /\ fOpts.Days > 0
    /\ ThreeRoleScenario(fOpts.Days)
    /\ fIn[1].LastUsed = now - fOpts.Days * DayTicks
    /\ fOut = <<fIn[2]>>

\* C13 as stated: in the three-role scenario with days = d > 0 and no flag,
\* FilterRoles returns all three roles in unchanged order.
C13_DaysKeepsAll ==
    (fpc = "done" /\ NoFlags /\ fOpts.Days > 0 /\ ThreeRoleScenario(fOpts.Days))
        => fOut = fIn

\* C13 amended: in the three-role scenario with days = d > 0 and no flag,
\* FilterRoles removes the recent role and returns the stale and the
\* never-used role, in input order.
C13_DaysDropsRecent ==
    (fpc = "done" /\ NoFlags /\ fOpts.Days > 0 /\ ThreeRoleScenario(fOpts.Days))
        => fOut = <<fIn[2], fIn[3]>>

C13_Witness ==
    /\ fpc = "done"
    /\ NoFlags
    /\ fOpts.Days = MaxDays
    /\ ThreeRoleScenario(MaxDays)
    /\ fIn[1].LastUsed = now - 1
    /\ Len(fOut) = 2
    /\ fOut[1] = fIn[2]
    /\ fOut[2] = fIn[3]

\* C14 as stated: with days = 0 and onlyUnused alone, FilterRoles includes
\* every used role whose lastUsed is strictly before now, and the
\* never-used roles as well.
C14_ZeroDaysKeepsPast ==
    (fpc = "done" /\ UnusedOnly /\ fOpts.Days = 0) =>
        \A i \in DOMAIN fIn :
            (NeverUsed(fIn[i]) \/ Before(fIn[i].LastUsed, now))
                => fIn[i] \in Elems(fOut)

\* C14 amended: with days = 0 and onlyUnused alone, FilterRoles excludes
\* every used role, also one whose lastUsed is strictly before now, and
\* includes the never-used roles.
C14_ZeroDaysDropsPast ==
    (fpc = "done" /\ UnusedOnly /\ fOpts.Days = 0) =>
        \A i \in DOMAIN fIn :
            /\ (~NeverUsed(fIn[i]) /\ Before(fIn[i].LastUsed, now))
                   => fIn[i] \notin Elems(fOut)
            /\ NeverUsed(fIn[i]) => fIn[i] \in Elems(fOut)

C14_Witness ==
    /\ fpc = "done"
    /\ UnusedOnly
    /\ fOpts.Days = 0
    /\ Len(fIn) = 2
    /\ ~NeverUsed(fIn[1]) /\ Before(fIn[1].LastUsed, now)
    /\ NeverUsed(fIn[2])
    /\ fOut = <<fIn[2]>>

\* ---------------------------------------------- properties: Role.IsUnused
\* C15: IsUnused returns true for every role whose lastUsed is absent, for
\* every days value from 0 on.
C15_NeverUsedIsUnused ==
    (upc = "done" /\ uRole.LastUsed = Nil) => uRes

C15_Witness ==
    /\ upc = "done"
    /\ uRole.LastUsed = Nil
    /\ uDays = 0
    /\ now > FilterEpoch
    /\ uRes

\* C16: for every days value d, a role last used d + 1 days before the
\* instant of the call is reported unused by IsUnused(d), and a role last
\* used d - 1 days before it is reported not unused.
C16_DayBeyondDayWithin ==
    (upc = "done" /\ uRole.LastUsed # Nil) =>
        /\ uRole.LastUsed = AddDays(now, -(uDays + 1)) => uRes
        /\ uRole.LastUsed = AddDays(now, -(uDays - 1)) => ~uRes

C16_Witness ==
    /\ upc = "done"
    /\ uDays = MaxDays
    /\ now > FilterEpoch
    /\ uRole.LastUsed = AddDays(now, -(uDays + 1))
    /\ uRes

\* C17: IsUnused compares strictly: it returns false for a role last used
\* exactly at the threshold (the instant of the call minus days), and true
\* only for a role last used strictly before it.
C17_StrictBoundary ==
    (upc = "done" /\ uRole.LastUsed # Nil) =>
        /\ uRole.LastUsed = AddDays(now, -uDays) => ~uRes
        /\ uRes => uRole.LastUsed < AddDays(now, -uDays)
        /\ uRole.LastUsed < AddDays(now, -uDays) => uRes

C17_Witness ==
    /\ upc = "done"
    /\ uDays > 0
    /\ uRole.LastUsed # Nil
    /\ uRole.LastUsed = AddDays(now, -uDays)
    /\ ~uRes

\* ------------------------------------------------------------ DeleteRole
PolicyIds == 1..MaxPolicies

\* The role a retrying caller deletes; the other roles are bystanders.
DeleteTargets == {n \in Names : n <= 1}

DeleteInit ==
    /\ ListRolesStart(<< >>, "off")
    /\ FilterIdle
    /\ UnusedIdle
    /\ PruneIdle
    /\ present = Names
    /\ \E A \in SUBSET PolicyIds :
         attached = [n \in Names |-> IF n \in DeleteTargets THEN A ELSE PolicyIds]
    /\ \E I \in SUBSET PolicyIds :
         inline = [n \in Names |-> IF n \in DeleteTargets THEN I ELSE PolicyIds]
    /\ dRole = 0
    /\ dpc = "idle"
    /\ pager = NewPaginator
    /\ page = << >>
    /\ dErr = FALSE
    /\ dMsg = NoError
    /\ attempts = << >>
    /\ dStart = [attached |-> {}, inline |-> {}]
    /\ calls = << >>

\* Variant: only the first page of a listing is asked for.
HasMorePagesFirstOnly(pg) == pg.first

\* paginator.HasMorePages(): before the first page, or a token is held.
HasMorePages(pg) == pg.first \/ pg.token # Nil

\* The ids of a set in ascending order.
RECURSIVE SortedSeq(_)
SortedSeq(S) ==
    IF S = {} THEN << >>
    ELSE LET m == CHOOSE x \in S : \A y \in S : x <= y
         IN  <<m>> \o SortedSeq(S \ {m})

\* One page of a policy listing: the first PageSize policies the role holds
\* after the token, and the token for the next page when more remain.
ListPage(granted, token) ==
    LET rest  == SortedSeq({x \in granted : token = Nil \/ x > token})
        items == SubSeq(rest, 1, IF Len(rest) < PageSize THEN Len(rest) ELSE PageSize)
    IN  [items |-> items,
         token |-> IF Len(rest) > PageSize THEN items[Len(items)] ELSE Nil]

\* The call log extended by one call of the invocation in progress.
Logged(op, arg, ok) ==
    Append(calls, [run |-> Len(attempts), op |-> op, role |-> dRole,
                   arg |-> arg, ok |-> ok])

\* Variant: a failed removal of a policy does not end the sub-step.
AbortsNever(ok) == FALSE

\* "if err != nil { return fmt.Errorf(...) }" after the removal of a policy.
Aborts(ok) == ~ok

\* Variant: a successful DeleteRole call leaves the role in place.
KeepRole(rs, name) == rs

\* IAM's DeleteRole, when it succeeds.
RemoveRole(rs, name) == rs \ {name}

\* DeleteRole(ctx, roleName) is entered.
DeleteRoleEnter(name) ==
    /\ dRole' = name
    /\ dpc' = "detach"
    /\ pager' = NewPaginator
    /\ page' = << >>
    /\ dErr' = FALSE
    /\ dMsg' = NoError
    /\ attempts' = Append(attempts, name)
    /\ dStart' = [attached |-> attached[name], inline |-> inline[name]]
    /\ UNCHANGED <<attached, inline, present, calls>>

\* DeleteRole returns an error.
DeleteRoleFails(what, policy) ==
    /\ dpc' = "returned"
    /\ dErr' = TRUE
    /\ dMsg' = Errorf(what, dRole, policy)
    /\ pager' = NewPaginator
    /\ page' = << >>

\* DetachRolePolicies: paginator.NextPage for the attached policies.
DetachNextPage(ok) ==
    /\ dpc = "detach"
    /\ page = << >>
    /\ HasMorePages(pager)
    /\ calls' = Logged("ListAttachedRolePolicies", 0, ok)
    /\ IF ok
       THEN LET out == ListPage(attached[dRole], pager.token)
            IN  /\ page' = out.items
                /\ pager' = [first |-> FALSE, token |-> out.token]
                /\ UNCHANGED <<dpc, dErr, dMsg>>
       ELSE DeleteRoleFails("list attached policies", 0)
    /\ UNCHANGED <<attached, inline, present, dRole, attempts, dStart>>
    /\ UNCHANGED <<pvars, fvars, uvars, cvars>>

\* DetachRolePolicies: DetachRolePolicy for the next policy of the page.
DetachPolicy(ok) ==
    /\ dpc = "detach"
    /\ page # << >>
    /\ calls' = Logged("DetachRolePolicy", Head(page), ok)
    /\ attached' = IF ok THEN [attached EXCEPT ![dRole] = @ \ {Head(page)}]
                   ELSE attached
    /\ IF Aborts(ok)
       THEN DeleteRoleFails("detach policy", Head(page))
       ELSE /\ page' = Tail(page)
            /\ UNCHANGED <<dpc, dErr, dMsg, pager>>
    /\ UNCHANGED <<inline, present, dRole, attempts, dStart>>
    /\ UNCHANGED <<pvars, fvars, uvars, cvars>>

\* DetachRolePolicies returns nil and DeleteRole enters DeleteInlinePolicies.
DetachDone ==
    /\ dpc = "detach"
    /\ page = << >>
    /\ ~HasMorePages(pager)
    /\ dpc' = "inline"
    /\ pager' = NewPaginator
    /\ UNCHANGED <<attached, inline, present, dRole, page, dErr, dMsg, attempts,
                   dStart, calls>>
    /\ UNCHANGED <<pvars, fvars, uvars, cvars>>

\* DeleteInlinePolicies: paginator.NextPage for the inline policies.
InlineNextPage(ok) ==
    /\ dpc = "inline"
    /\ page = << >>
    /\ HasMorePages(pager)
    /\ calls' = Logged("ListRolePolicies", 0, ok)
    /\ IF ok
       THEN LET out == ListPage(inline[dRole], pager.token)
            IN  /\ page' = out.items
                /\ pager' = [first |-> FALSE, token |-> out.token]
                /\ UNCHANGED <<dpc, dErr, dMsg>>
       ELSE DeleteRoleFails("list inline policies", 0)
    /\ UNCHANGED <<attached, inline, present, dRole, attempts, dStart>>
    /\ UNCHANGED <<pvars, fvars, uvars, cvars>>

\* DeleteInlinePolicies: DeleteRolePolicy for the next policy of the page.
DeleteInlinePolicy(ok) ==
    /\ dpc = "inline"
    /\ page # << >>
    /\ calls' = Logged("DeleteRolePolicy", Head(page), ok)
    /\ inline' = IF ok THEN [inline EXCEPT ![dRole] = @ \ {Head(page)}]
                 ELSE inline
    /\ IF Aborts(ok)
       THEN DeleteRoleFails("delete inline policy", Head(page))
       ELSE /\ page' = Tail(page)
            /\ UNCHANGED <<dpc, dErr, dMsg, pager>>
    /\ UNCHANGED <<attached, present, dRole, attempts, dStart>>
    /\ UNCHANGED <<pvars, fvars, uvars, cvars>>

\* DeleteInlinePolicies returns nil and DeleteRole reaches its last step.
InlineDone ==
    /\ dpc = "inline"
    /\ page = << >>
    /\ ~HasMorePages(pager)
    /\ dpc' = "delete"
    /\ pager' = NewPaginator
    /\ UNCHANGED <<attached, inline, present, dRole, page, dErr, dMsg, attempts,
                   dStart, calls>>
    /\ UNCHANGED <<pvars, fvars, uvars, cvars>>

\* Variant: the role is gone although the call reported a failure.
DeleteRoleCallEager(ok) ==
    /\ dpc = "delete"
    /\ calls' = Logged("DeleteRole", 0, ok)
    /\ present' = RemoveRole(present, dRole)
    /\ dpc' = "returned"
    /\ dErr' = ~ok
    /\ dMsg' = IF ok THEN NoError ELSE Errorf("delete role", dRole, 0)
    /\ UNCHANGED <<attached, inline, dRole, pager, page, attempts, dStart>>
    /\ UNCHANGED <<pvars, fvars, uvars, cvars>>

\* The iamClient.DeleteRole call, and the return of DeleteRole.
DeleteRoleCall(ok) ==
    /\ dpc = "delete"
    /\ calls' = Logged("DeleteRole", 0, ok)
    /\ present' = IF ok THEN RemoveRole(present, dRole) ELSE present
    /\ dpc' = "returned"
    /\ dErr' = ~ok
    /\ dMsg' = IF ok THEN NoError ELSE Errorf("delete role", dRole, 0)
    /\ UNCHANGED <<attached, inline, dRole, pager, page, attempts, dStart>>
    /\ UNCHANGED <<pvars, fvars, uvars, cvars>>

\* The steps of one DeleteRole invocation; every IAM call succeeds or fails.
DeleteRoleStep ==
    \/ \E ok \in BOOLEAN : DetachNextPage(ok)
    \/ \E ok \in BOOLEAN : DetachPolicy(ok)
    \/ DetachDone
    \/ \E ok \in BOOLEAN : InlineNextPage(ok)
    \/ \E ok \in BOOLEAN : DeleteInlinePolicy(ok)
    \/ InlineDone
    \/ \E ok \in BOOLEAN : DeleteRoleCall(ok)

\* A caller invokes DeleteRole, again after a return.
Invoke ==
    /\ dpc \in {"idle", "returned"}
    /\ Len(attempts) < MaxInvocations
    /\ \E name \in DeleteTargets : DeleteRoleEnter(name)
    /\ UNCHANGED <<pvars, fvars, uvars, cvars>>

DeleteNext ==
    \/ Invoke
    \/ DeleteRoleStep

SpecDelete == DeleteInit /\ [][DeleteNext]_vars

\* ------------------------------------------------ properties: DeleteRole
\* The sub-step an IAM call belongs to.
SubStep(op) ==
    IF op \in {"ListAttachedRolePolicies", "DetachRolePolicy"} THEN 1
    ELSE IF op \in {"ListRolePolicies", "DeleteRolePolicy"} THEN 2
    ELSE 3

\* The positions in the call log of the calls of invocation r.
CallsOf(r) == {i \in DOMAIN calls : calls[i].run = r}

\* The policies invocation r asked IAM to remove with the operation op.
Removals(r, op) == {i \in CallsOf(r) : calls[i].op = op}

\* C18: DeleteRole runs its sub-steps strictly in the order detach managed
\* policies, delete inline policies, delete role: within an invocation no
\* call of an earlier sub-step follows a call of a later one, a call is
\* issued only when every earlier call of the invocation succeeded, the
\* inline sub-step starts only when no managed policy is attached any more,
\* and the role-deletion call comes after both listings were made.
C18_SubStepOrder ==
    /\ \A i, j \in DOMAIN calls :
         (i < j /\ calls[i].run = calls[j].run) =>
             /\ SubStep(calls[i].op) <= SubStep(calls[j].op)
             /\ calls[i].ok
             /\ calls[i].op # "DeleteRole"
    /\ dpc = "inline" => attached[dRole] = {}
    /\ \A j \in DOMAIN calls :
         calls[j].op \in {"ListRolePolicies", "DeleteRolePolicy"} =>
             \E i \in CallsOf(calls[j].run) :
                 i < j /\ calls[i].op = "ListAttachedRolePolicies"
    /\ \A j \in DOMAIN calls :
         calls[j].op = "DeleteRole" =>
             \E i \in CallsOf(calls[j].run) :
                 i < j /\ calls[i].op = "ListRolePolicies"

\* A role with MaxPolicies managed and MaxPolicies inline policies, each
\* listing in several pages, is deleted by one invocation.
C18_Witness ==
    /\ dpc = "returned"
    /\ ~dErr
    /\ Len(attempts) = 1
    /\ dStart = [attached |-> PolicyIds, inline |-> PolicyIds]
    /\ Cardinality(Removals(1, "ListAttachedRolePolicies")) > 1
    /\ Cardinality(Removals(1, "DetachRolePolicy")) = MaxPolicies
    /\ Cardinality(Removals(1, "DeleteRolePolicy")) = MaxPolicies
    /\ calls[Len(calls)].op = "DeleteRole"
    /\ dRole \notin present

\* C19: when DeleteRole has failed part-way for a role and is invoked for
\* it again with no call failing, the later invocation returns nil, asks
\* IAM to detach exactly the managed policies and to delete exactly the
\* inline policies the role still held when it began, each once, and ends
\* with the role deleted.
C19_RetryCompletes ==
    LET r == Len(attempts)
    IN  (/\ dpc = "returned"
         /\ r >= 2
         /\ attempts[r - 1] = attempts[r]
         /\ \E i \in CallsOf(r - 1) : ~calls[i].ok
         /\ \A i \in CallsOf(r) : calls[i].ok)
        => /\ ~dErr
           /\ dRole \notin present
           /\ {calls[i].arg : i \in Removals(r, "DetachRolePolicy")} = dStart.attached
           /\ Cardinality(Removals(r, "DetachRolePolicy")) = Cardinality(dStart.attached)
           /\ {calls[i].arg : i \in Removals(r, "DeleteRolePolicy")} = dStart.inline
           /\ Cardinality(Removals(r, "DeleteRolePolicy")) = Cardinality(dStart.inline)
           /\ attached[dRole] = {}
           /\ inline[dRole] = {}

\* The first invocation detached one managed policy and failed on the next;
\* the second finds that one alone, removes it and deletes the role.
C19_Witness ==
    /\ dpc = "returned"
    /\ ~dErr
    /\ Len(attempts) = 2
    /\ \E i \in Removals(1, "DetachRolePolicy") : calls[i].ok /\ calls[i].arg = 1
    /\ \E i \in Removals(1, "DetachRolePolicy") : ~calls[i].ok /\ calls[i].arg = 2
    /\ dStart.attached = {2}
    /\ {calls[i].arg : i \in Removals(2, "DetachRolePolicy")} = {2}
    /\ dStart.inline # {}
    /\ dRole \notin present

\* ---------------------------------------------------------- prune command
\* The account the prune command runs against: the roles 1..n exist; role
\* 1 was never used, role 2 was last used long ago, the others just now.
TrueLastUsed(name) ==
    IF name = 1 THEN Nil ELSE IF name = 2 THEN 0 ELSE FilterEpoch

\* What ListRoles returns for the roles 1..n: each role with the date IAM
\* holds for it, or with nil where the lookup of that role failed.
PruneListings(n) ==
    {[i \in 1..n |-> [Name |-> ListingOf(n)[i], LastUsed |-> lu[i]]] :
        lu \in {f \in [1..n -> {Nil, 0, FilterEpoch}] :
                   \A i \in 1..n : f[i] \in {Nil, TrueLastUsed(ListingOf(n)[i])}}}

\* The grants of the roles in the account ps: role r holds the managed
\* policy r and the inline policy r - 1, where such a policy exists.
AccountAttached(ps) == [r \in Names |-> {p \in PolicyIds : r \in ps /\ p = r}]

AccountInline(ps) == [r \in Names |-> {p \in PolicyIds : r \in ps /\ p = r - 1}]

PruneInit ==
    /\ ListRolesStart(<< >>, "off")
    /\ UnusedIdle
    /\ fIn = << >>
    /\ fOpts \in AllFilterOptions
    /\ now = FilterEpoch
    /\ fOut = << >>
    /\ fpc = "off"
    /\ \E n \in 0..MaxRoles : present = 1..n
    /\ attached = AccountAttached(present)
    /\ inline = AccountInline(present)
    /\ dRole = 0
    /\ dpc = "idle"
    /\ pager = NewPaginator
    /\ page = << >>
    /\ dErr = FALSE
    /\ dMsg = NoError
    /\ attempts = << >>
    /\ dStart = [attached |-> {}, inline |-> {}]
    /\ calls = << >>
    /\ cpc = "list"
    /\ cOpts \in [DryRun : BOOLEAN, Force : BOOLEAN]
    /\ cK = 0
    /\ failedRoles = << >>
    /\ cRet = "none"
    /\ prompts = << >>
    /\ answer = "none"
    /\ response = NoLine
    /\ cmd = "prune"
    /\ roleName = 0
    /\ listed = "none"

\* Variant: Execute returns nil whatever happened.
PruneReturnsNil(ret) ==
    /\ cpc' = "returned"
    /\ cRet' = "nil"

\* Execute returns.
PruneReturns(ret) ==
    /\ cpc' = "returned"
    /\ cRet' = ret

\* Variant: a failed listing is taken for an empty one.
PruneListFailsIgnored ==
    /\ cmd = "prune"
    /\ cpc = "list"
    /\ listed' = "failed"
    /\ fpc' = "ready"
    /\ cpc' = "filter"
    /\ UNCHANGED <<fIn, fOpts, now, fOut>>
    /\ UNCHANGED <<cIn, cK, failedRoles, cRet, prompts, answer, response>>
    /\ UNCHANGED <<pvars, uvars, dvars>>

\* client.ListRoles fails: Execute returns the wrapped error.
PruneListFails ==
    /\ cmd = "prune"
    /\ cpc = "list"
    /\ listed' = "failed"
    /\ PruneReturns("err")
    /\ UNCHANGED <<cIn, cK, failedRoles, prompts, answer, response>>
    /\ UNCHANGED <<pvars, fvars, uvars, dvars>>

\* client.ListRoles returns the roles; they become FilterRoles' argument.
PruneListRoles ==
    /\ cmd = "prune"
    /\ cpc = "list"
    /\ listed' = "ok"
    /\ fIn' \in PruneListings(Cardinality(present))
    /\ fpc' = "ready"
    /\ cpc' = "filter"
    /\ UNCHANGED <<fOpts, now, fOut>>
    /\ UNCHANGED <<cIn, cK, failedRoles, cRet, prompts, answer, response>>
    /\ UNCHANGED <<pvars, uvars, dvars>>

\* Variant: the deletion loop is entered without the confirmation.
PruneGateNoConfirm ==
    /\ cmd = "prune"
    /\ cpc = "filter"
    /\ fpc = "done"
    /\ IF Len(fOut) = 0 \/ cOpts.DryRun
       THEN PruneReturns("nil")
       ELSE /\ cpc' = "deleting"
            /\ UNCHANGED cRet
    /\ UNCHANGED <<cIn, listed, cK, failedRoles, prompts, answer, response>>
    /\ UNCHANGED <<pvars, fvars, uvars, dvars>>

\* After the filter: no candidate, or a dry run, ends the command; without
\* Force the confirmation comes next, with Force the deletion loop.
PruneGate ==
    /\ cmd = "prune"
    /\ cpc = "filter"
    /\ fpc = "done"
    /\ IF Len(fOut) = 0 \/ cOpts.DryRun
       THEN PruneReturns("nil")
       ELSE /\ cpc' = IF cOpts.Force THEN "deleting" ELSE "confirm"
            /\ UNCHANGED cRet
    /\ UNCHANGED <<cIn, listed, cK, failedRoles, prompts, answer, response>>
    /\ UNCHANGED <<pvars, fvars, uvars, dvars>>

\* The lines a user types at the prompt, the newline stripped; eof: the
\* input ended before a newline came.
Responses == [word : {"y", "YES", " y ", "n", ""}, eof : BOOLEAN]

\* strings.TrimSpace(strings.ToLower(response)).
Normalised(word) ==
    IF word = "YES" THEN "yes" ELSE IF word = " y " THEN "y" ELSE word

\* Variant: an empty line counts as consent.
ConfirmActionDefaultYes(resp) ==
    IF resp.eof THEN "error"
    ELSE IF Normalised(resp.word) \in {"y", "yes", ""} THEN "yes" ELSE "no"

\* ConfirmAction: "error" when reading the line failed, "yes" for y or yes
\* after normalisation, "no" otherwise.
ConfirmAction(resp) ==
    IF resp.eof THEN "error"
    ELSE IF Normalised(resp.word) \in {"y", "yes"} THEN "yes" ELSE "no"

\* The prompt with the candidate count is shown and the user's line read.
PruneConfirm(resp) ==
    /\ cmd = "prune"
    /\ cpc = "confirm"
    /\ prompts' = Append(prompts, Len(fOut))
    /\ response' = resp
    /\ answer' = ConfirmAction(resp)
    /\ IF answer' = "yes"
       THEN cpc' = "deleting" /\ UNCHANGED cRet
       ELSE PruneReturns(IF answer' = "error" THEN "err" ELSE "nil")
    /\ UNCHANGED <<cIn, listed, cK, failedRoles>>
    /\ UNCHANGED <<pvars, fvars, uvars, dvars>>

\* Variant: the deletion loop is left at the first failure.
LoopOverAtFailure == cK = Len(fOut) \/ failedRoles # << >>

\* "for _, role := range filteredRoles" has no role left.
LoopOver == cK = Len(fOut)

\* The loop body calls client.DeleteRole for the next candidate.
PruneDeleteNext ==
    /\ cmd = "prune"
    /\ cpc = "deleting"
    /\ ~LoopOver
    /\ DeleteRoleEnter(fOut[cK + 1].Name)
    /\ cpc' = "inDelete"
    /\ UNCHANGED <<cIn, listed, cK, failedRoles, cRet, prompts, answer, response>>
    /\ UNCHANGED <<pvars, fvars, uvars>>

\* DeleteRole has returned: a failure is recorded, the loop goes on.
PruneDeleteReturned ==
    /\ cmd = "prune"
    /\ cpc = "inDelete"
    /\ dpc = "returned"
    /\ failedRoles' = IF dErr THEN Append(failedRoles, dRole) ELSE failedRoles
    /\ cK' = cK + 1
    /\ cpc' = "deleting"
    /\ dpc' = "idle"
    /\ UNCHANGED <<attached, inline, present, dRole, pager, page, dErr, dMsg,
                   attempts, dStart, calls>>
    /\ UNCHANGED <<cIn, listed, cRet, prompts, answer, response>>
    /\ UNCHANGED <<pvars, fvars, uvars>>

\* After the loop: an error when a deletion failed, nil otherwise.
PruneFinish ==
    /\ cmd = "prune"
    /\ cpc = "deleting"
    /\ LoopOver
    /\ PruneReturns(IF Len(failedRoles) > 0 THEN "err" ELSE "nil")
    /\ UNCHANGED <<cIn, listed, cK, failedRoles, prompts, answer, response>>
    /\ UNCHANGED <<pvars, fvars, uvars, dvars>>

PruneNext ==
    \/ PruneListFails
    \/ PruneListRoles
    \/ FilterCall
    \/ PruneGate
    \/ \E resp \in Responses : PruneConfirm(resp)
    \/ PruneDeleteNext
    \/ DeleteRoleStep
    \/ PruneDeleteReturned
    \/ PruneFinish

SpecPrune == PruneInit /\ [][PruneNext]_vars

\* --------------------------------------------------------- delete command
\* The account, the listing variables and the DeleteRole variables when a
\* command starts in an account with the roles 1..n.
CommandStart(n) ==
    /\ ListRolesStart(<< >>, "off")
    /\ UnusedIdle
    /\ fIn = << >>
    /\ now = FilterEpoch
    /\ fOut = << >>
    /\ fpc = "off"
    /\ present = 1..n
    /\ attached = AccountAttached(present)
    /\ inline = AccountInline(present)
    /\ dRole = 0
    /\ dpc = "idle"
    /\ pager = NewPaginator
    /\ page = << >>
    /\ dErr = FALSE
    /\ dMsg = NoError
    /\ attempts = << >>
    /\ dStart = [attached |-> {}, inline |-> {}]
    /\ calls = << >>
    /\ cpc = "list"
    /\ cK = 0
    /\ failedRoles = << >>
    /\ cRet = "none"
    /\ prompts = << >>
    /\ answer = "none"
    /\ response = NoLine
    /\ listed = "none"

DeleteCmdInit ==
    /\ \E n \in 0..MaxRoles : CommandStart(n)
    /\ fOpts = [Days |-> 0, OnlyUsed |-> FALSE, OnlyUnused |-> FALSE]
    /\ cmd = "delete"
    /\ cOpts \in [DryRun : BOOLEAN, Force : BOOLEAN]
    /\ roleName \in Names

\* client.ListRoles fails: Execute returns the wrapped error.
DeleteCmdListFails ==
    /\ cmd = "delete"
    /\ cpc = "list"
    /\ listed' = "failed"
    /\ PruneReturns("err")
    /\ UNCHANGED <<cIn, cK, failedRoles, prompts, answer, response>>
    /\ UNCHANGED <<pvars, fvars, uvars, dvars>>

\* client.ListRoles returns the roles of the account.
DeleteCmdListRoles ==
    /\ cmd = "delete"
    /\ cpc = "list"
    /\ listed' = "ok"
    /\ fIn' \in PruneListings(Cardinality(present))
    /\ cpc' = "lookup"
    /\ UNCHANGED <<fOpts, now, fOut, fpc>>
    /\ UNCHANGED <<cIn, cK, failedRoles, cRet, prompts, answer, response>>
    /\ UNCHANGED <<pvars, uvars, dvars>>

\* Variant: the lookup takes every name as found.
FoundAlways(rs, name) == TRUE

\* The lookup loop: targetRole != nil.
Found(rs, name) == \E i \in DOMAIN rs : rs[i].Name = name

\* The existence check: a not-found error ends the command.
DeleteCmdLookup ==
    /\ cmd = "delete"
    /\ cpc = "lookup"
    /\ IF Found(fIn, roleName)
       THEN cpc' = "gate" /\ UNCHANGED cRet
       ELSE PruneReturns("notfound")
    /\ UNCHANGED <<cIn, listed, cK, failedRoles, prompts, answer, response>>
    /\ UNCHANGED <<pvars, fvars, uvars, dvars>>

\* Variant: with Force set the dry run is not honoured.
DeleteCmdGateForceWins ==
    /\ cmd = "delete"
    /\ cpc = "gate"
    /\ IF cOpts.DryRun /\ ~cOpts.Force
       THEN PruneReturns("nil")
       ELSE /\ cpc' = IF cOpts.Force THEN "deleting" ELSE "confirm"
            /\ UNCHANGED cRet
    /\ UNCHANGED <<cIn, listed, cK, failedRoles, prompts, answer, response>>
    /\ UNCHANGED <<pvars, fvars, uvars, dvars>>

\* A dry run ends the command; without Force the confirmation comes next.
DeleteCmdGate ==
    /\ cmd = "delete"
    /\ cpc = "gate"
    /\ IF cOpts.DryRun
       THEN PruneReturns("nil")
       ELSE /\ cpc' = IF cOpts.Force THEN "deleting" ELSE "confirm"
            /\ UNCHANGED cRet
    /\ UNCHANGED <<cIn, listed, cK, failedRoles, prompts, answer, response>>
    /\ UNCHANGED <<pvars, fvars, uvars, dvars>>

\* The prompt with the role name is shown and the user's line read.
DeleteCmdConfirm(resp) ==
    /\ cmd = "delete"
    /\ cpc = "confirm"
    /\ prompts' = Append(prompts, roleName)
    /\ response' = resp
    /\ answer' = ConfirmAction(resp)
    /\ IF answer' = "yes"
       THEN cpc' = "deleting" /\ UNCHANGED cRet
       ELSE PruneReturns(IF answer' = "error" THEN "err" ELSE "nil")
    /\ UNCHANGED <<cIn, listed, cK, failedRoles>>
    /\ UNCHANGED <<pvars, fvars, uvars, dvars>>

\* client.DeleteRole(ctx, c.roleName) is called.
DeleteCmdCall ==
    /\ cmd = "delete"
    /\ cpc = "deleting"
    /\ DeleteRoleEnter(roleName)
    /\ cpc' = "inDelete"
    /\ UNCHANGED <<cIn, listed, cK, failedRoles, cRet, prompts, answer, response>>
    /\ UNCHANGED <<pvars, fvars, uvars>>

\* DeleteRole has returned: Execute returns its error, wrapped, or nil.
DeleteCmdReturned ==
    /\ cmd = "delete"
    /\ cpc = "inDelete"
    /\ dpc = "returned"
    /\ PruneReturns(IF dErr THEN "err" ELSE "nil")
    /\ UNCHANGED <<cIn, listed, cK, failedRoles, prompts, answer, response>>
    /\ UNCHANGED <<pvars, fvars, uvars, dvars>>

DeleteCmdNext ==
    \/ DeleteCmdListFails
    \/ DeleteCmdListRoles
    \/ DeleteCmdLookup
    \/ DeleteCmdGate
    \/ \E resp \in Responses : DeleteCmdConfirm(resp)
    \/ DeleteCmdCall
    \/ DeleteRoleStep
    \/ DeleteCmdReturned

\* ----------------------------------------------------------- list command
ListCmdInit ==
    /\ \E n \in 0..MaxRoles : CommandStart(n)
    /\ fOpts \in AllFilterOptions
    /\ cmd = "list"
    /\ cOpts = [DryRun |-> FALSE, Force |-> FALSE]
    /\ roleName = 0

\* client.ListRoles fails: Execute returns the wrapped error.
ListCmdListFails ==
    /\ cmd = "list"
    /\ cpc = "list"
    /\ listed' = "failed"
    /\ PruneReturns("err")
    /\ UNCHANGED <<cIn, cK, failedRoles, prompts, answer, response>>
    /\ UNCHANGED <<pvars, fvars, uvars, dvars>>

\* client.ListRoles returns the roles of the account.
ListCmdListRoles ==
    /\ cmd = "list"
    /\ cpc = "list"
    /\ listed' = "ok"
    /\ fIn' \in PruneListings(Cardinality(present))
    /\ cpc' = "filter"
    /\ UNCHANGED <<fOpts, now, fOut, fpc>>
    /\ UNCHANGED <<cIn, cK, failedRoles, cRet, prompts, answer, response>>
    /\ UNCHANGED <<pvars, uvars, dvars>>

\* Variant: the days test of the inline filter keeps a role last used
\* exactly at the threshold.
ListSkippedInclusive(role, opt, t) ==
    \/ opt.OnlyUsed /\ role.LastUsed = Nil
    \/ opt.OnlyUnused /\ role.LastUsed # Nil
    \/ /\ opt.Days > 0
       /\ role.LastUsed # Nil
       /\ ~NotAfter(role.LastUsed, AddDays(t, -opt.Days))

\* The three "continue" tests of the command's own filter loop.
ListSkipped(role, opt, t) ==
    \/ opt.OnlyUsed /\ role.LastUsed = Nil
    \/ opt.OnlyUnused /\ role.LastUsed # Nil
    \/ /\ opt.Days > 0
       /\ role.LastUsed # Nil
       /\ ~Before(role.LastUsed, AddDays(t, -opt.Days))

\* The command's own filter loop from position k on.
RECURSIVE ListFilterLoop(_, _, _, _, _)
ListFilterLoop(rs, opt, t, k, acc) ==
    IF k > Len(rs) THEN acc
    ELSE ListFilterLoop(rs, opt, t, k + 1,
                        IF ListSkipped(rs[k], opt, t) THEN acc
                        ELSE Append(acc, rs[k]))

\* The roles the list command hands to the formatter.
ListFilter(rs, opt, t) ==
    IF opt.OnlyUsed /\ opt.OnlyUnused
    THEN << >>
    ELSE ListFilterLoop(rs, opt, t, 1, << >>)

\* The filter block of Execute.
ListCmdFilter ==
    /\ cmd = "list"
    /\ cpc = "filter"
    /\ fOut' = ListFilter(fIn, fOpts, now)
    /\ cpc' = "format"
    /\ UNCHANGED <<fIn, fOpts, now, fpc>>
    /\ UNCHANGED <<cIn, listed, cK, failedRoles, cRet, prompts, answer, response>>
    /\ UNCHANGED <<pvars, uvars, dvars>>

\* formatter.FormatRoles succeeds or fails; Execute returns.
ListCmdFormat(ok) ==
    /\ cmd = "list"
    /\ cpc = "format"
    /\ PruneReturns(IF ok THEN "nil" ELSE "err")
    /\ UNCHANGED <<cIn, listed, cK, failedRoles, prompts, answer, response>>
    /\ UNCHANGED <<pvars, fvars, uvars, dvars>>

ListCmdNext ==
    \/ ListCmdListFails
    \/ ListCmdListRoles
    \/ ListCmdFilter
    \/ \E ok \in BOOLEAN : ListCmdFormat(ok)

\* ------------------------------------------------------ the three commands
CommandsInit == PruneInit \/ DeleteCmdInit \/ ListCmdInit

CommandsNext == PruneNext \/ DeleteCmdNext \/ ListCmdNext

SpecCommands == CommandsInit /\ [][CommandsNext]_vars

\* ---------------------------------------------- properties: prune command
\* The names of the filtered candidates, in candidate order.
CandidateNames == [i \in 1..Len(fOut) |-> fOut[i].Name]

\* Execute returned from behind its deletion loop.
LoopCompleted ==
    /\ cpc = "returned"
    /\ Len(fOut) > 0
    /\ ~cOpts.DryRun
    /\ cOpts.Force \/ answer = "yes"

\* C20: the prune command invokes DeleteRole exactly once for each role of
\* the filtered candidate sequence, in candidate order, and for no other
\* role: at every moment the invocations made are a prefix of the candidate
\* names, and when the loop is over they are all of them, also when the
\* deletion of an earlier candidate failed.
C20_EveryCandidateOnce ==
    /\ Len(attempts) <= Len(fOut)
    /\ attempts = SubSeq(CandidateNames, 1, Len(attempts))
    /\ Len(attempts) = cK + (IF cpc = "inDelete" THEN 1 ELSE 0)
    /\ LoopCompleted => attempts = CandidateNames
    /\ \A i \in DOMAIN failedRoles :
         \E k \in DOMAIN attempts : attempts[k] = failedRoles[i]

\* The filter removed a role, the deletion of the first candidate failed
\* after a policy was detached, and the second candidate was deleted.
C20_Witness ==
    /\ LoopCompleted
    /\ Len(fOut) = 2
    /\ Len(fIn) = 3
    /\ failedRoles = <<fOut[1].Name>>
    /\ attached[fOut[1].Name] # dStart.attached
    /\ attempts = <<fOut[1].Name, fOut[2].Name>>
    /\ fOut[1].Name \in present
    /\ fOut[2].Name \notin present
    /\ cRet = "err"

\* An IAM call of invocation r failed.
RunFailed(r) == \E i \in CallsOf(r) : ~calls[i].ok

\* The names of the completed invocations that failed, in attempt order.
FailedAttempts ==
    LET runs == SelectSeq([r \in 1..cK |-> r], RunFailed)
    IN  [j \in 1..Len(runs) |-> attempts[runs[j]]]

\* C21: the failed list holds exactly the names of the roles whose
\* DeleteRole returned an error, in attempt order; Execute does not return
\* while the loop runs, and once it is over it returns an error if and only
\* if the failed list is non-empty, every role that is not in the list
\* being deleted.
C21_FailureReport ==
    /\ failedRoles = FailedAttempts
    /\ cpc \in {"deleting", "inDelete"} => cRet = "none"
    /\ LoopCompleted =>
         /\ cK = Len(fOut)
         /\ cRet = (IF failedRoles # << >> THEN "err" ELSE "nil")
         /\ \A r \in DOMAIN attempts : ~RunFailed(r) => attempts[r] \notin present
         /\ \A r \in DOMAIN attempts : RunFailed(r) => attempts[r] \in present

\* Three candidates, the deletion of the second alone fails.
C21_Witness ==
    /\ LoopCompleted
    /\ Len(fOut) = 3
    /\ failedRoles = <<fOut[2].Name>>
    /\ fOut[1].Name \notin present
    /\ fOut[2].Name \in present
    /\ fOut[3].Name \notin present
    /\ cRet = "err"

\* C22: in a prune that is not a dry run, has Force unset and a non-empty
\* candidate sequence, the confirmation is asked exactly once, with the
\* number of candidates, and before the first DeleteRole call: nothing has
\* been invoked when the prompt is shown, and every invocation made without
\* Force follows a prompt that was answered with consent.
C22_ConfirmOnceBeforeDelete ==
    /\ Len(prompts) <= 1
    /\ (/\ ~cOpts.DryRun /\ ~cOpts.Force /\ Len(fOut) > 0
        /\ cpc \in {"deleting", "inDelete", "returned"})
           => prompts = <<Len(fOut)>>
    /\ cpc = "confirm" => (prompts = << >> /\ attempts = << >> /\ calls = << >>)
    /\ (~cOpts.Force /\ (attempts # << >> \/ calls # << >>))
           => (prompts = <<Len(fOut)>> /\ answer = "yes")

C22_Witness ==
    /\ cmd = "prune"
    /\ ~cOpts.DryRun /\ ~cOpts.Force
    /\ Len(fOut) = 2
    /\ Len(fIn) = 3
    /\ prompts = <<2>>
    /\ response = [word |-> "YES", eof |-> FALSE]
    /\ Len(attempts) = 1
    /\ Len(calls) = 1

\* ------------------------------------- ListRoles and the three commands
\* ListRoles as its callers run it, together with the commands that call it.
SpecListing == (Init \/ CommandsInit) /\ [][Next \/ CommandsNext]_vars

\* ---------------------------------------- properties: the three commands
\* The account is as the command found it: the listed roles exist and hold
\* the policies they held.
AccountUntouched ==
    /\ present = {fIn[i].Name : i \in DOMAIN fIn}
    /\ attached = AccountAttached(present)
    /\ inline = AccountInline(present)

\* A line was read and, normalised, it is neither "y" nor "yes".
Declined ==
    /\ prompts # << >>
    /\ ~response.eof
    /\ Normalised(response.word) \notin {"y", "yes"}

\* C23: when the confirmation is answered by anything other than y or yes,
\* neither the prune nor the delete command issues a DeleteRole, detach or
\* inline-delete call, the roles stay as they were, nothing is reported as
\* failed, and the command returns success.
C23_DeclineChangesNothing ==
    (cmd \in {"prune", "delete"} /\ Declined) =>
        /\ calls = << >>
        /\ attempts = << >>
        /\ AccountUntouched
        /\ failedRoles = << >>
        /\ cK = 0
        /\ cpc = "returned"
        /\ cRet = "nil"

C23_Witness ==
    /\ cmd = "delete"
    /\ response = [word |-> "", eof |-> FALSE]
    /\ prompts = <<roleName>>
    /\ Cardinality(present) = MaxRoles
    /\ attached[roleName] # {}
    /\ cRet = "nil"

\* C24: with DryRun set, neither the prune nor the delete command issues a
\* DeleteRole call (or any detach or inline-delete call) or asks for
\* confirmation, whatever the value of Force.
C24_DryRunIsInert ==
    (cmd \in {"prune", "delete"} /\ cOpts.DryRun) =>
        /\ calls = << >>
        /\ attempts = << >>
        /\ prompts = << >>
        /\ response = NoLine
        /\ listed = "ok" => AccountUntouched
        /\ cRet \in {"none", "nil", "err", "notfound"}
        /\ cRet = "err" => listed = "failed"

C24_Witness ==
    /\ cmd = "delete"
    /\ cOpts.DryRun
    /\ cOpts.Force
    /\ Found(fIn, roleName)
    /\ attached[roleName] # {}
    /\ cpc = "returned"
    /\ cRet = "nil"

\* The role named on the command line is among the listed roles.
TargetListed == roleName \in {fIn[i].Name : i \in DOMAIN fIn}

\* C25: the delete command validates existence first. A name that is not in
\* the listing ends the command with a not-found error, without a
\* confirmation and without any detach, inline-delete or DeleteRole call;
\* for a listed role the order is existence check, confirmation, deletion.
C25_ExistenceFirst ==
    cmd = "delete" =>
        /\ (cpc = "returned" /\ listed = "ok" /\ ~TargetListed)
              => (/\ cRet = "notfound"
                  /\ prompts = << >>
                  /\ attempts = << >>
                  /\ calls = << >>
                  /\ AccountUntouched)
        /\ cRet = "notfound" => (listed = "ok" /\ ~TargetListed)
        /\ prompts # << >> => (TargetListed /\ prompts = <<roleName>>)
        /\ cpc = "confirm" => (TargetListed /\ attempts = << >>)
        /\ attempts # << >>
              => (/\ TargetListed
                  /\ attempts = <<roleName>>
                  /\ cOpts.Force \/ (prompts = <<roleName>> /\ answer = "yes"))
        /\ calls # << >> => attempts # << >>

C25_Witness ==
    /\ cmd = "delete"
    /\ ~cOpts.DryRun
    /\ Len(fIn) = 2
    /\ roleName = 3
    /\ cpc = "returned"
    /\ cRet = "notfound"
    /\ prompts = << >>

\* C26: a listing failure is fatal. ListRoles returns an error and no roles
\* without starting any fetchLastUsed call, and the list, prune and delete
\* commands return an error without filtering, prompting or deleting.
C26_ListingFailureFatal ==
    /\ retErr => (/\ mpc = "returned"
                  /\ roles = << >>
                  /\ pool = EmptyBag
                  /\ dispatchI = 0
                  /\ merged = << >>
                  /\ \A n \in Names : fetchCalls[n] = 0)
    /\ listed = "failed" => (/\ cpc = "returned"
                             /\ cRet = "err"
                             /\ fpc = "off"
                             /\ fIn = << >>
                             /\ fOut = << >>
                             /\ prompts = << >>
                             /\ response = NoLine
                             /\ attempts = << >>
                             /\ calls = << >>
                             /\ failedRoles = << >>)

C26_Witness ==
    /\ cmd = "prune"
    /\ listed = "failed"
    /\ cRet = "err"
    /\ Cardinality(present) = MaxRoles
    /\ ~cOpts.DryRun
    /\ cOpts.Force

\* A failed ListRoles call on a non-empty account.
C26_WitnessListRoles ==
    /\ retErr
    /\ mpc = "returned"
    /\ Len(listing) = MaxRoles

\* ------------------------------------ properties: the ListRoles pipeline
\* The number of times the collector has written roles[k].LastUsed: once for
\* every worker result with index k, and, for k = 0, once more for every
\* receive that found the results channel closed and empty.
SlotWrites(k) ==
    Cardinality({j \in DOMAIN merged : merged[j].index = k})
        + (IF k = 0 THEN cI - Len(merged) ELSE 0)

\* C27: in every reachable state of ListRoles the collector is the only
\* writer of the role sequence, and no two results for the same slot are
\* merged: every slot has been written at most once.
C27_SingleWriter ==
    mpc \in {"dispatch", "wait", "returned"} =>
        \A k \in 0..(N - 1) : SlotWrites(k) <= 1

\* C28 as stated: ListRoles does not return before every dispatched index
\* has produced a worker result that the collector consumed.
C28_ReturnAfterAllResults ==
    (mpc = "returned" /\ ~retErr) =>
        \A i \in 0..(dispatchI - 1) :
            \E j \in DOMAIN merged : merged[j].index = i

\* C28 amended: the same, provided the caller's context was not cancelled
\* before ListRoles returned; then every index was dispatched, and each has
\* exactly one consumed worker result.
C28_ReturnAfterAllResultsUncancelled ==
    (mpc = "returned" /\ ~retErr /\ ctxDone # "parent") =>
        /\ dispatchI = N
        /\ results = << >>
        /\ \A i \in 0..(dispatchI - 1) :
             Cardinality({j \in DOMAIN merged : merged[j].index = i}) = 1

C28_Witness ==
    /\ mpc = "returned"
    /\ ctxDone = "deferred"
    /\ dispatchI = MaxRoles
    /\ Len(merged) = MaxRoles
    /\ merged[1].index # 0

\* C29: once the cancellation signal has fired, no further role index is
\* dispatched to the workers and no worker begins a new fetchLastUsed call.
C29_CancelStopsWork ==
    [][cancelled => (dispatchI' = dispatchI /\ fetchCalls' = fetchCalls)]_vars

\* The listed roles whose GetRoleLastUsed call has returned.
CompletedLookups == {n \in ListedNames : fetchRes[n].set}

\* C30: the progress sink is notified exactly once for each enrichment that a
\* worker completed: never for a role whose lookup did not complete, and,
\* when ListRoles returns, once for every lookup that did.
C30_ProgressPerCompletion ==
    /\ progress <= Cardinality(CompletedLookups)
    /\ (mpc = "returned" /\ ~retErr)
           => progress = Cardinality(CompletedLookups)

\* The worker goroutines that are inside a GetRoleLastUsed call.
InFlight ==
    BagCardinality([ws \in {w \in DOMAIN pool : w.pc = "fetch"} |-> pool[ws]])

\* C31: at every moment the number of fetchLastUsed calls in flight is at
\* most the fixed pool size, whatever the number of roles.
C31_BoundedPool ==
    /\ InFlight <= PoolSize
    /\ BagCardinality(pool) \in {0, PoolSize}

\* More roles than workers, and every worker inside a lookup.
C31_Witness ==
    /\ Len(roles) > PoolSize
    /\ InFlight = PoolSize

\* C32: at the moment DeleteRole issues the role-deletion call, the role
\* holds no managed policy attachment and no inline policy, however many
\* policies it held and over however many listing pages they were spread.
C32_NoPolicyAtDeleteCall ==
    dpc = "delete" =>
        /\ attached[dRole] = {}
        /\ inline[dRole] = {}

\* The role held every policy of both kinds, more than a page of each.
C32_Witness ==
    /\ dpc = "delete"
    /\ dStart.attached = PolicyIds
    /\ dStart.inline = PolicyIds
    /\ MaxPolicies > PageSize

\* The operation an error text names for a failed IAM call.
WhatOf(op) ==
    CASE op = "ListAttachedRolePolicies" -> "list attached policies"
      [] op = "DetachRolePolicy"         -> "detach policy"
      [] op = "ListRolePolicies"         -> "list inline policies"
      [] op = "DeleteRolePolicy"         -> "delete inline policy"
      [] OTHER                           -> "delete role"

\* C33: when detaching a managed policy fails, DeleteRole issues no further
\* detach call, no inline-policy deletion and no role deletion, and returns
\* an error identifying the policy that failed; the same holds for the first
\* failing inline-policy deletion and for a failing policy-listing page.
C33_AbortOnFirstFailure ==
    /\ \A i \in DOMAIN calls :
         ~calls[i].ok =>
             \A j \in DOMAIN calls : j > i => calls[j].run > calls[i].run
    /\ (/\ calls # << >>
        /\ calls[Len(calls)].run = Len(attempts)
        /\ ~calls[Len(calls)].ok)
           => LET last == calls[Len(calls)]
              IN  /\ dpc = "returned"
                  /\ dErr
                  /\ dMsg.what = WhatOf(last.op)
                  /\ dMsg.role = last.role
                  /\ dMsg.policy = last.arg
                  /\ last.op \in {"DetachRolePolicy", "DeleteRolePolicy"}
                         => dMsg.policy \in PolicyIds

\* The second managed policy failed to detach while inline policies remain.
C33_Witness ==
    /\ dpc = "returned"
    /\ Len(calls) >= 2
    /\ calls[Len(calls)].op = "DetachRolePolicy"
    /\ ~calls[Len(calls)].ok
    /\ \E i \in DOMAIN calls : calls[i].op = "DetachRolePolicy" /\ calls[i].ok
    /\ dMsg.policy = calls[Len(calls)].arg
    /\ inline[dRole] # {}
    /\ dRole \in present

\* The policies the invocation in progress removed with the operation op.
Removed(op) ==
    {calls[i].arg : i \in {j \in Removals(Len(attempts), op) : calls[j].ok}}

\* The role of the invocation in progress existed when DeleteRole was called.
ExistedAtStart ==
    \A i \in DOMAIN calls :
        ~(calls[i].op = "DeleteRole" /\ calls[i].ok /\ calls[i].role = dRole)

\* C34: when DeleteRole fails at any sub-step it returns that error at once
\* and undoes nothing: the grants removed before the failure stay removed,
\* the grants not yet processed stay attached, and the role still exists.
C34_NoRollback ==
    (dpc = "returned" /\ dErr /\ ExistedAtStart) =>
        /\ calls # << >>
        /\ calls[Len(calls)].run = Len(attempts)
        /\ ~calls[Len(calls)].ok
        /\ dRole \in present
        /\ attached[dRole] = dStart.attached \ Removed("DetachRolePolicy")
        /\ inline[dRole] = dStart.inline \ Removed("DeleteRolePolicy")

\* One managed policy was detached, the next one failed, the inline
\* policies were never reached.
C34_Witness ==
    /\ dpc = "returned"
    /\ dErr
    /\ ExistedAtStart
    /\ dMsg.what = "detach policy"
    /\ Removed("DetachRolePolicy") # {}
    /\ attached[dRole] # {}
    /\ attached[dRole] # dStart.attached
    /\ inline[dRole] = dStart.inline
    /\ inline[dRole] # {}

\* The role's lastUsed is the instant the caller captured before the call
\* (FilterEpoch) minus exactly uDays days.
BuiltAtThreshold ==
    /\ uRole.LastUsed # Nil
    /\ uRole.LastUsed = FilterEpoch - uDays * DayTicks

\* C35 as stated: a role whose lastUsed was built as the caller's earlier
\* now minus exactly days days is reported unused by a subsequent
\* IsUnused(days) call.
C35_ThresholdRoleUnused ==
    (upc = "done" /\ BuiltAtThreshold) => uRes

\* C35 amended: it is reported unused when the clock read inside the call is
\* strictly later than the instant the caller captured, and not unused when
\* the clock still reads that instant.
C35_ThresholdRoleUnusedLater ==
    (upc = "done" /\ BuiltAtThreshold) => (uRes <=> now > FilterEpoch)

C35_Witness ==
    /\ upc = "done"
    /\ BuiltAtThreshold
    /\ uDays = MaxDays
    /\ now = FilterEpoch + 1
    /\ uRes

\* The backend holds a last-used date for the role that is not strictly
\* older than d days at the instant t.
InUse(name, d, t) ==
    /\ TrueLastUsed(name) # Nil
    /\ ~(TrueLastUsed(name) < t - d * DayTicks)

\* C36: prune never attempts to delete a role that is actually in use: every
\* role it invokes DeleteRole for has, in the backend, no last-used date or
\* one strictly older than the days threshold, also when last-used lookups
\* failed, and for every days value including 0.
C36_NeverDeletesInUse ==
    cmd = "prune" =>
        \A k \in DOMAIN attempts : ~InUse(attempts[k], fOpts.Days, now)

\* C37: the filter written inline in the list command and the unified
\* FilterRoles return the same role sequence for every input role sequence
\* and every combination of days, onlyUsed and onlyUnused, given the same
\* now.
C37_InlineFilterEquivalent ==
    /\ ListFilter(fIn, fOpts, now) = FilterRoles(fIn, fOpts, now)
    /\ fpc = "done" => fOut = ListFilter(fIn, fOpts, now)

\* onlyUnused with a days value, on roles of which one is stale, one was used
\* exactly at the threshold and one was never used.
C37_Witness ==
    /\ fpc = "done"
    /\ UnusedOnly
    /\ fOpts.Days > 0
    /\ Len(fIn) = 3
    /\ StaleFor(fIn[1], fOpts.Days, now)
    /\ fIn[2].LastUsed = AddDays(now, -fOpts.Days)
    /\ NeverUsed(fIn[3])
    /\ fOut = ListFilter(fIn, fOpts, now)
    /\ fOut = <<fIn[3]>>

\* C38: the results channel is closed only after every worker has exited:
\* in no interleaving, with or without cancellation, does a worker send on
\* the results channel after it was closed.
C38_CloseAfterWorkers ==
    /\ ~panicked
    /\ resultsClosed => \A ws \in BagToSet(pool) : ws.pc = "exited"

\* The channel was closed after a cancellation made a worker give up.
C38_Witness ==
    /\ resultsClosed
    /\ ctxDone = "parent"
    /\ Len(roles) = MaxRoles
    /\ Len(merged) >= 1
    /\ Len(merged) < Len(roles)

\* C39: at the moment ListRoles returns, with or without cancellation, no
\* fetchLastUsed call is still in flight (none is about to start either),
\* and no write to the returned role sequence happens afterwards.
C39_QuiescentAtReturn ==
    /\ [](mpc = "returned" =>
             \A ws \in BagToSet(pool) : ws.pc \in {"range", "exited"})
    /\ [][mpc = "returned" => roles' = roles]_vars

\* ListRoles has returned after a cancellation, with lookups made and a
\* result dropped, and a step of the closer goroutine still to come.
C39_Witness ==
    /\ mpc = "returned"
    /\ ctxDone = "parent"
    /\ Len(roles) = MaxRoles
    /\ Len(merged) < Len(roles)
    /\ \E n \in ListedNames : fetchCalls[n] > 0

\* The filter options with the days value replaced by d.
WithDays(opt, d) == [opt EXCEPT !.Days = d]

\* C40: isUnused is monotone in days for a fixed now: a role unused at
\* threshold d is unused at every d' with 0 <= d' <= d, so the roles kept
\* by the days-only filter can only shrink as days grows.
C40_MonotoneInDays ==
    /\ \A i \in DOMAIN fIn : \A d \in 0..MaxDays : \A e \in 0..d :
         IsUnused(fIn[i], d, now) => IsUnused(fIn[i], e, now)
    /\ (fpc = "done" /\ ~fOpts.OnlyUsed /\ ~fOpts.OnlyUnused) =>
         \A e \in 0..fOpts.Days :
             IsSubsequence(fOut, FilterRoles(fIn, WithDays(fOpts, e), now))

\* The largest days value drops a role that a smaller one keeps.
C40_Witness ==
    /\ fpc = "done"
    /\ ~fOpts.OnlyUsed
    /\ ~fOpts.OnlyUnused
    /\ fOpts.Days = MaxDays
    /\ Len(fIn) = 3
    /\ Len(fOut) = 1
    /\ Len(FilterRoles(fIn, WithDays(fOpts, 1), now)) = 2
    /\ Len(FilterRoles(fIn, WithDays(fOpts, 0), now)) = 3

=============================================================================
